---- MODULE Spec2Model ----
(***************************************************************************)
(* Verification model of the AI security scanner:                          *)
(*   - the ScanSession durable object (session store / chat coordinator)   *)
(*     and the worker's HTTP router in front of it        (Spec)           *)
(*   - the breadth-first crawler ApifyCrawler.crawl       (CrawlSpec,      *)
(*     CrawlFairSpec with the loop weakly fair)                            *)
(*   - WebsiteScanner.scanWebsite and calculateSummary    (ScanSpec)       *)
(***************************************************************************)
EXTENDS Integers, Sequences, FiniteSets, TLC

VARIABLES
    \* ---- ScanSession durable object and worker router
    sessionData,   \* this.sessionData, the in-memory session (Null before load)
    stored,        \* state.storage 'session', the persisted session
    chats,         \* handleChat calls: request id -> continuation record
    nChats,        \* number of handleChat calls that found a session so far
    tasks,         \* background performScan tasks handed to ctx.waitUntil
    nScans,        \* number of POST /api/scan requests accepted so far
    resp,          \* the response returned by the step just taken (NoResp: none)
    now,           \* the clock: what Date.now() returns
    \* ---- ApifyCrawler.crawl
    cpc,           \* position of the crawl: "off", "loop", "done"
    maxPages,      \* this.options.maxPages
    maxDepth,      \* this.options.maxDepth
    seed,          \* the url the crawl was started with
    queue,         \* queue: sequence of [url, depth]
    processedUrls, \* processedUrls
    processedCount,\* processedCount
    crawlFindings, \* findings accumulated by crawl
    fetched,       \* url -> number of times it was handed to fetch
    called,        \* url -> number of times it was handed to onPageCrawled
    \* ---- WebsiteScanner.scanWebsite
    spc,           \* position of the scan: "off", "input", "returned"
    variant,       \* which WebsiteScanner runs: "single" (scanner.ts) or "crawl"
    scanInput,     \* the input: the url argument, the options, the page served
    scanErrors,    \* the errors thrown while the scan ran
    scanOutput,    \* what was returned: the ScanResult, a function's value
    \* ---- SecurityChecker
    hpc,           \* position of the check: "off", "input", "returned"
    responseHeaders,   \* the headers of the response under check
    headerFindings,    \* the findings the check returned
    checkerUrl,        \* this.url of the checker
    checkerHtml,       \* this.html of the checker
    runs               \* the calls made so far: input and what was returned

sessionVars == <<sessionData, stored, chats, nChats, tasks, nScans, resp, now>>
crawlVars == <<cpc, maxPages, maxDepth, seed, queue, processedUrls,
               processedCount, crawlFindings, fetched, called>>
scanVars == <<spc, variant, scanInput, scanErrors, scanOutput>>
checkVars == <<hpc, responseHeaders, headerFindings, checkerUrl, checkerHtml,
              runs>>
vars == <<sessionVars, crawlVars, scanVars, checkVars>>

(***************************************************************************)
(* Bounds of the model.                                                    *)
(***************************************************************************)
MaxRequests == 3
MaxLinks == 2
MaxPagesOption == 2
MaxDepthOption == 1
MaxFindings == 3
MaxPieces == 3
MaxCookies == 2
MaxRuns == 3
MaxVersionLen == 3
MaxCalls == 2

(***************************************************************************)
(* Values shared by the components.                                        *)
(***************************************************************************)
\* null / undefined
Null == [null |-> TRUE]

Severities == {"critical", "high", "medium", "low"}

\* findings.forEach with one case of the switch: the counter of severity sev
RECURSIVE CountSeverity(_, _)
CountSeverity(findings, sev) ==
    IF findings = <<>> THEN 0
    ELSE (IF Head(findings).severity = sev THEN 1 ELSE 0)
         + CountSeverity(Tail(findings), sev)

\* calculateSummary with the case 'low' left out of the switch
calculateSummaryNoLow(findings) ==
    [total    |-> Len(findings),
     critical |-> CountSeverity(findings, "critical"),
     high     |-> CountSeverity(findings, "high"),
     medium   |-> CountSeverity(findings, "medium"),
     low      |-> 0]

\* calculateSummary: total is findings.length, one counter per switch case
calculateSummary(findings) ==
    [total    |-> Len(findings),
     critical |-> CountSeverity(findings, "critical"),
     high     |-> CountSeverity(findings, "high"),
     medium   |-> CountSeverity(findings, "medium"),
     low      |-> CountSeverity(findings, "low")]

ZeroSummary == [total |-> 0, critical |-> 0, high |-> 0, medium |-> 0, low |-> 0]

(***************************************************************************)
(* ScanSession durable object.                                             *)
(*                                                                         *)
(* The object runs one event at a time.  A handler gives way to other      *)
(* requests only where it awaits something that is not its own storage:    *)
(* handleChat's await of generateAIResponse.  Awaits of storage.get and    *)
(* storage.put admit no other event, so every other handler is one step.   *)
(***************************************************************************)
TargetUrls == {"u1", "u2"}
ScanIds == {"s1"}
Messages == {"hello"}

\* the url of a POST /api/scan body, the message of a chat body, the id
\* segment of a path: each may be missing (undefined or the empty string)
Missing == ""

\* generateScanId: a fresh random identifier
generateScanId == ScanIds

\* generateMessageId: unique per message; request r's messages get <<r, role>>
generateMessageId(r, role) == <<r, role>>

\* loadSession: read storage only when nothing is in memory
loadSession(mem, sto) == IF mem = Null THEN sto ELSE mem

\* a reply of the completion service, or the fallback text: either is a
\* function of the user message and the scan result passed in by the caller
generateAIResponse(message, scanResult, mode) ==
    [to |-> message, about |-> scanResult, by |-> mode]

ChatIds == 1..MaxRequests

IdleChat == [pc |-> "idle"]

Awaiting == {r \in ChatIds : chats[r].pc = "await"}

\* responses of the durable object
DoResponse(status, body) == [status |-> status, body |-> body]

NoSessionBody == [error |-> "No active scan session"]

\* initiateScan with the url updated but the old conversation kept
initiateSessionKeepsChat(loaded, url, newId, time) ==
    LET base == IF loaded = Null
                THEN [scanId |-> newId, url |-> url, scanResult |-> Null,
                      chatHistory |-> <<>>, createdAt |-> time,
                      lastActivity |-> time]
                ELSE loaded
        reset == IF base.url # url
                 THEN [base EXCEPT !.url = url, !.scanResult = Null]
                 ELSE base
    IN [reset EXCEPT !.lastActivity = time]

\* ScanSession.initiateScan, between loadSession and saveSession
initiateSession(loaded, url, newId, time) ==
    LET base == IF loaded = Null
                THEN [scanId |-> newId, url |-> url, scanResult |-> Null,
                      chatHistory |-> <<>>, createdAt |-> time,
                      lastActivity |-> time]
                ELSE loaded
        reset == IF base.url # url
                 THEN [base EXCEPT !.url = url, !.scanResult = Null,
                                   !.chatHistory = <<>>]
                 ELSE base
    IN [reset EXCEPT !.lastActivity = time]

NoResp == [route |-> "none"]

\* the durable object before its first request; the crawler and the scanner
\* take no part
Init ==
    /\ cpc = "off" /\ maxPages = 0 /\ maxDepth = 0 /\ seed = Null /\ queue = <<>>
    /\ processedUrls = {} /\ processedCount = 0 /\ crawlFindings = <<>>
    /\ fetched = <<>> /\ called = <<>>
    /\ spc = "off" /\ variant = "off" /\ scanInput = Null /\ scanErrors = {}
    /\ scanOutput = Null
    /\ hpc = "off" /\ responseHeaders = <<>> /\ headerFindings = <<>>
    /\ checkerUrl = <<>> /\ checkerHtml = <<>> /\ runs = <<>>
    /\ sessionData = Null
    /\ stored = Null
    /\ chats = [r \in ChatIds |-> IdleChat]
    /\ nChats = 0
    /\ tasks = {}
    /\ nScans = 0
    /\ resp = NoResp
    /\ now = 0

\* the session a handler works on after its loadSession
Loaded == loadSession(sessionData, stored)

\* a response: the route and path key of the request, the worker's status (0
\* for a call made by performScan, which the worker does not relay), the
\* durable object's status (0 when it was not called), the body
HttpResponse(route, key, http, do, body) ==
    [route |-> route, key |-> key, http |-> http, do |-> do, body |-> body]

\* status of a worker response built without a status option
DefaultStatus == 200

\* POST /api/scan without url: rejected by the worker
PostScanMissing ==
    /\ resp' = HttpResponse("scan", Missing, 400, 0, [error |-> "URL is required"])
    /\ UNCHANGED <<sessionData, stored, chats, nChats, tasks, nScans, now, crawlVars, scanVars, checkVars>>

\* POST /api/scan {url} with the background scan handed to ctx.waitUntil
\* although initiateScan has not put the session into storage
PostScanUnsaved(url) ==
    /\ nScans + nChats < MaxRequests
    /\ \E newId \in generateScanId :
         LET s == initiateSession(Loaded, url, newId, now) IN
         /\ sessionData' = s
         /\ stored' = stored
         /\ resp' = HttpResponse("scan", Missing, DefaultStatus, 200,
                      [scanId |-> s.scanId, url |-> s.url, status |-> "initiated"])
    /\ nScans' = nScans + 1
    /\ tasks' = tasks \cup {[scan |-> nScans + 1, url |-> url, pc |-> "try"]}
    /\ UNCHANGED <<chats, nChats, now, crawlVars, scanVars, checkVars>>

\* POST /api/scan {url}: ScanSession.initiateScan runs to its saveSession,
\* then the worker hands performScan to ctx.waitUntil and acknowledges
PostScan(url) ==
    /\ nScans + nChats < MaxRequests
    /\ \E newId \in generateScanId :
         LET s == initiateSession(Loaded, url, newId, now) IN
         /\ sessionData' = s
         /\ stored' = s
         /\ resp' = HttpResponse("scan", Missing, DefaultStatus, 200,
                      [scanId |-> s.scanId, url |-> s.url, status |-> "initiated"])
    /\ nScans' = nScans + 1
    /\ tasks' = tasks \cup {[scan |-> nScans + 1, url |-> url, pc |-> "try"]}
    /\ UNCHANGED <<chats, nChats, now, crawlVars, scanVars, checkVars>>

\* updateScanResult that starts a session when it finds none
applyScanResultCreates(loaded, result, time) ==
    IF loaded # Null
    THEN [loaded EXCEPT !.scanResult = result, !.lastActivity = time]
    ELSE [scanId |-> "s1", url |-> result.url, scanResult |-> result,
          chatHistory |-> <<>>, createdAt |-> time, lastActivity |-> time]

\* updateScanResult that keeps the result of the scan started last
applyScanResultNewestWins(loaded, result, time) ==
    IF loaded # Null /\ (loaded.scanResult = Null \/ loaded.scanResult.scan <= result.scan)
    THEN [loaded EXCEPT !.scanResult = result, !.lastActivity = time]
    ELSE loaded

\* ScanSession.updateScanResult, between loadSession and saveSession
applyScanResult(loaded, result, time) ==
    IF loaded # Null
    THEN [loaded EXCEPT !.scanResult = result, !.lastActivity = time]
    ELSE loaded

\* saveSession: storage.put only when a session is in memory
saveSession(mem, sto) == IF mem # Null THEN mem ELSE sto

\* how performScan's try block ends: scanWebsite returned a completed or a
\* failed result, or an error was thrown inside the try block
Outcomes == {"completed", "failed", "throws"}

\* the result performScan posts (scan stands for its id, url for the url it
\* reports): scanWebsite's result, or the failedResult of the catch block
performScanResult(t, outcome) ==
    [scan |-> t.scan, url |-> t.url,
     status |-> IF outcome = "throws" THEN "failed" ELSE outcome]

\* performScan with a catch block that only logs
PerformScanDropsThrown(t, outcome) ==
    /\ t \in tasks
    /\ t.pc = "catch" => outcome = "throws"
    /\ LET s == IF outcome = "throws" THEN Loaded
                ELSE applyScanResult(Loaded, performScanResult(t, outcome), now) IN
         /\ sessionData' = s
         /\ stored' = saveSession(s, stored)
    /\ tasks' = tasks \ {t}
    /\ resp' = HttpResponse("update-scan-result", Missing, 0, 200, [success |-> TRUE])
    /\ UNCHANGED <<chats, nChats, nScans, now, crawlVars, scanVars, checkVars>>

\* performScan: the scan of task t ends and its result is posted to the
\* durable object's update-scan-result. A task is in the catch block only
\* because an awaited call of the try block rejected, so what it posts from
\* there is the failedResult
PerformScan(t, outcome) ==
    /\ t \in tasks
    /\ t.pc = "catch" => outcome = "throws"
    /\ LET s == applyScanResult(Loaded, performScanResult(t, outcome), now) IN
         /\ sessionData' = s
         /\ stored' = saveSession(s, stored)
    /\ tasks' = tasks \ {t}
    /\ resp' = HttpResponse("update-scan-result", Missing, 0, 200, [success |-> TRUE])
    /\ UNCHANGED <<chats, nChats, nScans, now, crawlVars, scanVars, checkVars>>

\* performScan when its update-scan-result call rejects after the durable
\* object has processed it (scanWebsite catches its own errors, so this call
\* is the only await of the try block that can reject): the result is
\* applied, and performScan goes on in its catch block
PerformScanRejected(t, outcome) ==
    /\ t \in tasks
    /\ t.pc = "try"
    /\ LET s == applyScanResult(Loaded, performScanResult(t, outcome), now) IN
         /\ sessionData' = s
         /\ stored' = saveSession(s, stored)
    /\ tasks' = (tasks \ {t}) \cup {[t EXCEPT !.pc = "catch"]}
    /\ resp' = HttpResponse("update-scan-result", Missing, 0, 200, [success |-> TRUE])
    /\ UNCHANGED <<chats, nChats, nScans, now, crawlVars, scanVars, checkVars>>

\* a GET or POST whose path has an empty id segment
MissingId(route) ==
    /\ resp' = HttpResponse(route, Missing, 400, 0, [error |-> "Scan ID is required"])
    /\ UNCHANGED <<sessionData, stored, chats, nChats, tasks, nScans, now, crawlVars, scanVars, checkVars>>

\* ScanSession.getStatus
getStatus(loaded) ==
    IF loaded = Null THEN DoResponse(404, NoSessionBody)
    ELSE DoResponse(200, loaded)

\* ScanSession.getChatHistory
getChatHistory(loaded) ==
    IF loaded = Null THEN DoResponse(404, NoSessionBody)
    ELSE DoResponse(200, [chatHistory |-> loaded.chatHistory])

\* the worker relays the body of the durable object's response
RelayStatus(doStatus) == DefaultStatus

\* GET /api/scan/{id}/status
GetStatus(key) ==
    /\ LET r == getStatus(Loaded) IN
         resp' = HttpResponse("status", key, RelayStatus(r.status), r.status, r.body)
    /\ sessionData' = Loaded
    /\ UNCHANGED <<stored, chats, nChats, tasks, nScans, now, crawlVars, scanVars, checkVars>>

\* GET /api/chat/{scanId}/history
GetHistory(key) ==
    /\ LET r == getChatHistory(Loaded) IN
         resp' = HttpResponse("history", key, RelayStatus(r.status), r.status, r.body)
    /\ sessionData' = Loaded
    /\ UNCHANGED <<stored, chats, nChats, tasks, nScans, now, crawlVars, scanVars, checkVars>>

\* a ChatMessage; req names the handleChat call that appended it (timestamp
\* is left out)
ChatMessage(r, role, content) ==
    [id |-> generateMessageId(r, role), role |-> role, content |-> content, req |-> r]

\* POST /api/chat/{scanId} without message, passed on to handleChat with an
\* empty message that is pushed to the history
PostChatMissingAppends(key) ==
    /\ resp' = HttpResponse("chat", key, 400, 0, [error |-> "Message is required"])
    /\ sessionData' = IF Loaded = Null THEN Loaded
                      ELSE [Loaded EXCEPT !.chatHistory =
                              Append(@, ChatMessage(0, "user", Missing))]
    /\ UNCHANGED <<stored, chats, nChats, tasks, nScans, now, crawlVars, scanVars, checkVars>>

\* POST /api/chat/{scanId} without message: rejected by the worker
PostChatMissing(key) ==
    /\ resp' = HttpResponse("chat", key, 400, 0, [error |-> "Message is required"])
    /\ UNCHANGED <<sessionData, stored, chats, nChats, tasks, nScans, now, crawlVars, scanVars, checkVars>>

\* POST /api/chat/{scanId} when the durable object holds no session
PostChatNoSession(key, message) ==
    /\ Loaded = Null
    /\ resp' = HttpResponse("chat", key, RelayStatus(404), 404, NoSessionBody)
    /\ UNCHANGED <<sessionData, stored, chats, nChats, tasks, nScans, now, crawlVars, scanVars, checkVars>>

\* POST /api/chat/{scanId}: ScanSession.handleChat up to its await of
\* generateAIResponse; the user message is pushed, nothing is saved yet
PostChat(key, message) ==
    /\ Loaded # Null
    /\ nScans + nChats + now < MaxRequests
    /\ LET r == nChats + 1 IN
         /\ sessionData' = [Loaded EXCEPT !.chatHistory =
                              Append(@, ChatMessage(r, "user", message))]
         /\ chats' = [chats EXCEPT ![r] =
                        [pc |-> "await", key |-> key, message |-> message,
                         url |-> Loaded.url, scanResult |-> Loaded.scanResult]]
    /\ nChats' = nChats + 1
    /\ resp' = NoResp
    /\ UNCHANGED <<stored, tasks, nScans, now, crawlVars, scanVars, checkVars>>

\* handleChat after generateAIResponse settled (mode: the completion service
\* answered, or it failed and the fallback text is used)
ChatResume(r, mode) ==
    /\ chats[r].pc = "await"
    /\ LET aiResponse == generateAIResponse(chats[r].message, chats[r].scanResult, mode)
           assistantMessage == ChatMessage(r, "assistant", aiResponse)
           s == [sessionData EXCEPT !.chatHistory = Append(@, assistantMessage),
                                    !.lastActivity = now]
       IN
         /\ sessionData' = s
         /\ stored' = saveSession(s, stored)
         /\ resp' = HttpResponse("chat", chats[r].key, RelayStatus(200), 200,
                      [message |-> aiResponse, messageId |-> assistantMessage.id])
    /\ chats' = [chats EXCEPT ![r] = [pc |-> "done"]]
    /\ UNCHANGED <<nChats, tasks, nScans, now, crawlVars, scanVars, checkVars>>

\* the runtime drops the idle object from memory; the next request
\* constructs it again with sessionData = null
Evict ==
    /\ Awaiting = {}
    /\ sessionData # Null
    /\ sessionData' = Null
    /\ resp' = NoResp
    /\ UNCHANGED <<stored, chats, nChats, tasks, nScans, now, crawlVars, scanVars, checkVars>>

\* id segments of request paths: an issued scan id, and one never issued
PathKeys == ScanIds \cup {"s0"}

SessionNext ==
    \/ PostScanMissing
    \/ \E url \in TargetUrls : PostScan(url)
    \/ \E t \in tasks : \E outcome \in Outcomes : PerformScan(t, outcome)
    \/ \E route \in {"status", "chat", "history"} : MissingId(route)
    \/ \E key \in PathKeys : GetStatus(key)
    \/ \E key \in PathKeys : GetHistory(key)
    \/ \E key \in PathKeys : PostChatMissing(key)
    \/ \E key \in PathKeys : \E message \in Messages : PostChatNoSession(key, message)
    \/ \E key \in PathKeys : \E message \in Messages : PostChat(key, message)
    \/ \E r \in ChatIds : \E mode \in {"ai", "fallback"} : ChatResume(r, mode)
    \/ Evict

(***************************************************************************)
(* ScanSession with a clock  (StoreSpec): the durable object serves the    *)
(* requests its fetch handler accepts, update-scan-result included, from   *)
(* whoever sends them, while time passes.                                  *)
(***************************************************************************)
\* time passes (a tick counts as a request against MaxRequests)
Tick ==
    /\ nScans + nChats + now < MaxRequests
    /\ now' = now + 1
    /\ resp' = NoResp
    /\ UNCHANGED <<sessionData, stored, chats, nChats, tasks, nScans, crawlVars, scanVars, checkVars>>

\* POST /scan {url} on the durable object: ScanSession.initiateScan
StoreScan(url) ==
    /\ nScans + nChats + now < MaxRequests
    /\ \E newId \in generateScanId :
         LET s == initiateSession(Loaded, url, newId, now) IN
         /\ sessionData' = s
         /\ stored' = s
         /\ resp' = HttpResponse("scan", Missing, 0, 200,
                      [scanId |-> s.scanId, url |-> s.url, status |-> "initiated"])
    /\ nScans' = nScans + 1
    /\ UNCHANGED <<chats, nChats, tasks, now, crawlVars, scanVars, checkVars>>

\* the results a caller of update-scan-result can post
PostedResults ==
    {performScanResult([scan |-> 1, url |-> "u1"], outcome) : outcome \in Outcomes}

\* POST /update-scan-result on the durable object:
\* ScanSession.updateScanResult
UpdateScanResult(result) ==
    /\ LET s == applyScanResult(Loaded, result, now) IN
         /\ sessionData' = s
         /\ stored' = saveSession(s, stored)
    /\ resp' = HttpResponse("update-scan-result", Missing, 0, 200, [success |-> TRUE])
    /\ UNCHANGED <<chats, nChats, tasks, nScans, now, crawlVars, scanVars, checkVars>>

StoreNext ==
    \/ Tick
    \/ \E url \in TargetUrls : StoreScan(url)
    \/ \E result \in PostedResults : UpdateScanResult(result)
    \/ \E key \in ScanIds : GetStatus(key)
    \/ \E key \in ScanIds : GetHistory(key)
    \/ \E key \in ScanIds : \E message \in Messages : PostChatNoSession(key, message)
    \/ \E key \in ScanIds : \E message \in Messages : PostChat(key, message)
    \/ \E r \in ChatIds : \E mode \in {"ai", "fallback"} : ChatResume(r, mode)
    \/ Evict

StoreSpec == Init /\ [][StoreNext]_vars

(***************************************************************************)
(* performScan with an update-scan-result call that can reject after the   *)
(* durable object has processed it, and status polls.                      *)
(***************************************************************************)
PerformNext ==
    \/ \E url \in TargetUrls : PostScan(url)
    \/ \E t \in tasks : \E outcome \in Outcomes : PerformScan(t, outcome)
    \/ \E t \in tasks : \E outcome \in {"completed", "failed"} :
          PerformScanRejected(t, outcome)
    \/ \E key \in ScanIds : GetStatus(key)

PerformSpec == Init /\ [][PerformNext]_vars

(***************************************************************************)
(* Strings (sequences of characters) and bounded sequences.                *)
(***************************************************************************)
\* sequences over S of length at most n
SeqsUpTo(S, n) == UNION {[1..k -> S] : k \in 0..n}

Http == <<"h", "t", "t", "p", ":", "/", "/">>
Https == <<"h", "t", "t", "p", "s", ":", "/", "/">>

RECURSIVE Concat(_)
Concat(ss) == IF ss = <<>> THEN <<>> ELSE Head(ss) \o Concat(Tail(ss))

StartsWith(str, prefix) ==
    Len(str) >= Len(prefix) /\ SubSeq(str, 1, Len(prefix)) = prefix

EndsWith(str, suffix) ==
    Len(str) >= Len(suffix)
    /\ SubSeq(str, Len(str) - Len(suffix) + 1, Len(str)) = suffix

(***************************************************************************)
(* SecurityChecker.checkSecurityHeaders.                                   *)
(***************************************************************************)
\* the securityHeaders table, in the order of its entries
securityHeaders ==
    << [header |-> "Content-Security-Policy", severity |-> "high"],
       [header |-> "X-Frame-Options", severity |-> "medium"],
       [header |-> "X-Content-Type-Options", severity |-> "medium"],
       [header |-> "X-XSS-Protection", severity |-> "low"],
       [header |-> "Strict-Transport-Security", severity |-> "high"],
       [header |-> "Referrer-Policy", severity |-> "low"] >>

HeaderNames == {securityHeaders[i].header : i \in 1..Len(securityHeaders)}

\* what headers.get returns: null for a header the response does not have,
\* else its value, a string (here a sequence of words, empty for "")
Absent == [present |-> FALSE, value |-> <<>>]
Value(words) == [present |-> TRUE, value |-> words]
HeaderValues == {Absent, Value(<<>>), Value(<<"script-src">>), Value(<<"default-src">>)}

\* truthiness of string | null: null and "" are falsy
Truthy(got) == got.present /\ got.value # <<>>

\* csp.includes(word)
Includes(got, word) == \E i \in 1..Len(got.value) : got.value[i] = word

MissingFinding(entry) ==
    [id |-> <<"missing", entry.header>>, type |-> "header",
     severity |-> entry.severity, header |-> entry.header]

CspFinding ==
    [id |-> <<"csp-no-default-src">>, type |-> "header", severity |-> "medium",
     header |-> "Content-Security-Policy"]

\* checkSecurityHeaders without its CSP quality check
checkSecurityHeadersTableOnly(headers) ==
    LET missing == SelectSeq(securityHeaders,
                             LAMBDA entry : ~Truthy(headers[entry.header]))
    IN [i \in 1..Len(missing) |-> MissingFinding(missing[i])]

\* checkSecurityHeaders: one finding per table entry whose header.get is
\* falsy, then the CSP quality check
checkSecurityHeaders(headers) ==
    LET missing == SelectSeq(securityHeaders,
                             LAMBDA entry : ~Truthy(headers[entry.header]))
        csp == headers["Content-Security-Policy"]
    IN [i \in 1..Len(missing) |-> MissingFinding(missing[i])]
       \o (IF Truthy(csp) /\ ~Includes(csp, "default-src")
           THEN <<CspFinding>> ELSE <<>>)

\* checkSecurityHeaders is called on a response with any headers; the session
\* store, the crawler and the scanner take no part
CheckInit ==
    /\ sessionData = Null /\ stored = Null /\ chats = <<>> /\ nChats = 0
    /\ tasks = {} /\ nScans = 0 /\ resp = NoResp /\ now = 0
    /\ cpc = "off" /\ maxPages = 0 /\ maxDepth = 0 /\ seed = Null /\ queue = <<>>
    /\ processedUrls = {} /\ processedCount = 0 /\ crawlFindings = <<>>
    /\ fetched = <<>> /\ called = <<>>
    /\ spc = "off" /\ variant = "off" /\ scanInput = Null /\ scanErrors = {}
    /\ scanOutput = Null
    /\ hpc = "input"
    /\ responseHeaders \in [HeaderNames -> HeaderValues]
    /\ headerFindings = <<>>
    /\ checkerUrl = <<>> /\ checkerHtml = <<>> /\ runs = <<>>

CheckHeaders ==
    /\ hpc = "input"
    /\ headerFindings' = checkSecurityHeaders(responseHeaders)
    /\ hpc' = "returned"
    /\ UNCHANGED <<responseHeaders, checkerUrl, checkerHtml, runs,
                   sessionVars, crawlVars, scanVars>>

CheckNext == CheckHeaders

CheckSpec == CheckInit /\ [][CheckNext]_vars

(***************************************************************************)
(* SecurityChecker.checkCookies.                                           *)
(***************************************************************************)
\* strings are sequences of characters; the pieces of a Set-Cookie value
CookieA == <<"a", "=", "1">>
CookieSecured == <<"s", "e", "c", "u", "r", "e", "d", "=", "1">>
AttrSecure == <<";", " ", "S", "e", "c", "u", "r", "e">>
AttrHttpOnly == <<";", " ", "H", "t", "t", "p", "O", "n", "l", "y">>
AttrSameSite == <<";", " ", "S", "a", "m", "e", "S", "i", "t", "e", "=", "L", "a", "x">>
CookieSeparator == <<",", " ">>

CookieNames == {CookieA, CookieSecured}
CookieAttrs == {"Secure", "HttpOnly", "SameSite"}

\* a cookie as the server sends it: name=value, then its attributes
SentCookies == [pair : CookieNames, attrs : SUBSET CookieAttrs]

RenderCookie(c) ==
    c.pair \o (IF "Secure" \in c.attrs THEN AttrSecure ELSE <<>>)
           \o (IF "HttpOnly" \in c.attrs THEN AttrHttpOnly ELSE <<>>)
           \o (IF "SameSite" \in c.attrs THEN AttrSameSite ELSE <<>>)

\* headers.get('Set-Cookie'): the cookies joined by ", "
RECURSIVE RenderCookies(_)
RenderCookies(cs) ==
    IF Len(cs) = 0 THEN <<>>
    ELSE IF Len(cs) = 1 THEN RenderCookie(cs[1])
    ELSE RenderCookie(cs[1]) \o CookieSeparator \o RenderCookies(Tail(cs))

\* toLowerCase, on the letters that occur
LowerChar(c) ==
    CASE c = "S" -> "s" [] c = "H" -> "h" [] c = "O" -> "o" [] c = "L" -> "l"
      [] OTHER -> c

toLowerCase(str) == [i \in 1..Len(str) |-> LowerChar(str[i])]

\* str.includes(needle)
IncludesStr(str, needle) ==
    \E i \in 1..(Len(str) - Len(needle) + 1) :
        SubSeq(str, i, i + Len(needle) - 1) = needle

\* the commas /,(?=[^;]+?=)/ matches: followed by at least one character
\* other than ';' and then '='
SplitPoints(str) ==
    {i \in 1..Len(str) :
        /\ str[i] = ","
        /\ \E j \in (i + 2)..Len(str) :
              str[j] = "=" /\ \A k \in (i + 1)..(j - 1) : str[k] # ";"}

\* setCookie.split(/,(?=[^;]+?=)/)
RECURSIVE SplitAt(_, _, _)
SplitAt(str, from, points) ==
    LET next == {i \in points : i >= from} IN
    IF next = {} THEN <<SubSeq(str, from, Len(str))>>
    ELSE LET i == CHOOSE x \in next : \A y \in next : x <= y
         IN <<SubSeq(str, from, i - 1)>> \o SplitAt(str, i + 1, points)

SplitCookies(got) ==
    IF got.present /\ got.value # <<>>
    THEN SplitAt(got.value, 1, SplitPoints(got.value))
    ELSE <<>>

CookieFinding(index, flag, severity) ==
    [id |-> <<"cookie", index, flag>>, type |-> "cookie", severity |-> severity]

\* the findings of one cookie (index counts from 0)
cookieFindings(cookie, index, url) ==
    LET cookieLower == toLowerCase(cookie) IN
    (IF ~IncludesStr(cookieLower, <<"s", "e", "c", "u", "r", "e">>)
        /\ StartsWith(url, Https)
     THEN <<CookieFinding(index, "no-secure", "medium")>> ELSE <<>>)
    \o (IF ~IncludesStr(cookieLower, <<"h", "t", "t", "p", "o", "n", "l", "y">>)
        THEN <<CookieFinding(index, "no-httponly", "medium")>> ELSE <<>>)
    \o (IF ~IncludesStr(cookieLower, <<"s", "a", "m", "e", "s", "i", "t", "e">>)
        THEN <<CookieFinding(index, "no-samesite", "low")>> ELSE <<>>)

\* checkCookies: cookies.forEach
checkCookies(headers, url) ==
    LET cookies == SplitCookies(headers["Set-Cookie"]) IN
    Concat([i \in 1..Len(cookies) |-> cookieFindings(cookies[i], i - 1, url)])

\* the urls of the page under check
PageUrls == {Https \o <<"a">>, Http \o <<"a">>}

\* the Set-Cookie headers a response can carry; sent is the list of cookies
\* the value was rendered from
SetCookieValues ==
    {Absent} \cup
    {[present |-> TRUE, value |-> RenderCookies(cs), sent |-> cs] :
        cs \in SeqsUpTo(SentCookies, MaxCookies)}

\* checkCookies is called on a response with any Set-Cookie header
CookieInit ==
    /\ sessionData = Null /\ stored = Null /\ chats = <<>> /\ nChats = 0
    /\ tasks = {} /\ nScans = 0 /\ resp = NoResp /\ now = 0
    /\ cpc = "off" /\ maxPages = 0 /\ maxDepth = 0 /\ seed = Null /\ queue = <<>>
    /\ processedUrls = {} /\ processedCount = 0 /\ crawlFindings = <<>>
    /\ fetched = <<>> /\ called = <<>>
    /\ spc = "off" /\ variant = "off" /\ scanInput = Null /\ scanErrors = {}
    /\ scanOutput = Null
    /\ hpc = "input"
    /\ responseHeaders \in [{"Set-Cookie"} -> SetCookieValues]
    /\ headerFindings = <<>>
    /\ checkerUrl \in PageUrls
    /\ checkerHtml = <<>> /\ runs = <<>>

CheckCookies ==
    /\ hpc = "input"
    /\ headerFindings' = checkCookies(responseHeaders, checkerUrl)
    /\ hpc' = "returned"
    /\ UNCHANGED <<responseHeaders, checkerUrl, checkerHtml, runs,
                   sessionVars, crawlVars, scanVars>>

CookieNext == CheckCookies

CookieSpec == CookieInit /\ [][CookieNext]_vars

(***************************************************************************)
(* SecurityChecker: the other checks, runAllChecks and updateContext.      *)
(* An html document is described by what the checks' patterns find in it:  *)
(*   resources  the matches of /https?:\/\/[^"'\s]+/g                       *)
(*   text       the sensitive names its lower-cased text includes          *)
(*   forms      the <form ...> tags, each by the words it includes         *)
(*   inputs     whether it includes '<input' or '<textarea'                *)
(*   libraries  the version string captured after each library's first     *)
(*              name match                                                 *)
(***************************************************************************)
\* new URL(url).protocol: the scheme with its colon, lower-cased
protocol(url) ==
    LET colons == {i \in 1..Len(url) : url[i] = ":"}
        first == CHOOSE i \in colons : \A j \in colons : i <= j
    IN toLowerCase(SubSeq(url, 1, first))

HttpsProtocol == <<"h", "t", "t", "p", "s", ":">>

Finding(id, type, severity) == [id |-> id, type |-> type, severity |-> severity]

checkSSL(url) ==
    IF protocol(url) # HttpsProtocol
    THEN <<Finding(<<"no-https">>, "ssl", "critical")>> ELSE <<>>

checkMixedContent(url, html) ==
    IF protocol(url) = HttpsProtocol
    THEN LET mixedContent == {r \in html.resources :
                                r.scheme = "http://" /\ r.host # "localhost"}
         IN IF mixedContent # {}
            THEN <<Finding(<<"mixed-content">>, "content", "high")>> ELSE <<>>
    ELSE <<>>

sensitiveFiles ==
    << <<".", "g", "i", "t">>,
       <<".", "e", "n", "v">>,
       <<"r", "o", "b", "o", "t", "s", ".", "t", "x", "t">>,
       <<"s", "i", "t", "e", "m", "a", "p", ".", "x", "m", "l">>,
       <<"a", "d", "m", "i", "n">>,
       <<"w", "p", "-", "a", "d", "m", "i", "n">>,
       <<"p", "h", "p", "m", "y", "a", "d", "m", "i", "n">>,
       <<"b", "a", "c", "k", "u", "p">>,
       <<"t", "e", "s", "t">>,
       <<"d", "e", "v">> >>

checkExposedFiles(url, html) ==
    LET foundFiles == SelectSeq(sensitiveFiles,
                        LAMBDA file : \/ file \in html.text
                                      \/ IncludesStr(toLowerCase(url), file))
    IN IF Len(foundFiles) > 0
       THEN <<Finding(<<"exposed-sensitive-files">>, "file", "medium")>>
       ELSE <<>>

checkXSSVulnerabilities(html) ==
    IF Len(html.forms) > 0 /\ html.inputs
    THEN LET formsWithoutValidation ==
                 SelectSeq(html.forms,
                           LAMBDA form : /\ "required" \notin form
                                         /\ "pattern" \notin form
                                         /\ "minlength" \notin form)
         IN IF Len(formsWithoutValidation) > 0
            THEN <<Finding(<<"forms-no-validation">>, "xss", "medium")>>
            ELSE <<>>
    ELSE <<>>

checkCORS(headers) ==
    LET corsHeader == headers["Access-Control-Allow-Origin"] IN
    IF corsHeader.present /\ corsHeader.value = <<"*">>
    THEN <<Finding(<<"cors-wildcard">>, "cors", "high")>> ELSE <<>>

libraryPatterns ==
    << [name |-> "jquery", minVersion |-> <<"3", ".", "0", ".", "0">>],
       [name |-> "bootstrap", minVersion |-> <<"4", ".", "0", ".", "0">>],
       [name |-> "angular", minVersion |-> <<"1", "2", ".", "0", ".", "0">>],
       [name |-> "react", minVersion |-> <<"1", "6", ".", "0", ".", "0">>] >>

Max(a, b) == IF a >= b THEN a ELSE b

Digits == {"0", "1", "2", "3", "4", "5", "6", "7", "8", "9"}

DigitValue(c) ==
    CASE c = "0" -> 0 [] c = "1" -> 1 [] c = "2" -> 2 [] c = "3" -> 3
      [] c = "4" -> 4 [] c = "5" -> 5 [] c = "6" -> 6 [] c = "7" -> 7
      [] c = "8" -> 8 [] c = "9" -> 9

\* the value Number gives for a string that is no number
NaN == -1

RECURSIVE DecimalValue(_)
DecimalValue(str) ==
    IF str = <<>> THEN 0
    ELSE 10 * DecimalValue(SubSeq(str, 1, Len(str) - 1)) + DigitValue(str[Len(str)])

\* Number(str), for strings of digits and other characters: 0 for "", the
\* decimal value of a string of digits, else NaN
Number(str) ==
    IF \A i \in 1..Len(str) : str[i] \in Digits THEN DecimalValue(str) ELSE NaN

\* version.split('.').map(Number)
VersionParts(version) ==
    LET parts == SplitAt(version, 1, {i \in 1..Len(version) : version[i] = "."})
    IN [i \in 1..Len(parts) |-> Number(parts[i])]

\* parts[i] || 0: 0 for a missing component, for NaN and for 0
PartOr0(parts, i) == IF i <= Len(parts) /\ parts[i] # NaN THEN parts[i] ELSE 0

\* isVersionOutdated that counts equal versions as outdated
isVersionOutdatedOrEqual(current, minimum) ==
    LET currentParts == VersionParts(current)
        minParts == VersionParts(minimum)
        differing == {i \in 1..Max(Len(currentParts), Len(minParts)) :
                        PartOr0(currentParts, i) # PartOr0(minParts, i)}
    IN \/ differing = {}
       \/ LET i == CHOOSE x \in differing : \A y \in differing : x <= y
          IN PartOr0(currentParts, i) < PartOr0(minParts, i)

\* isVersionOutdated: the first differing component decides
isVersionOutdated(current, minimum) ==
    LET currentParts == VersionParts(current)
        minParts == VersionParts(minimum)
        differing == {i \in 1..Max(Len(currentParts), Len(minParts)) :
                        PartOr0(currentParts, i) # PartOr0(minParts, i)}
    IN /\ differing # {}
       /\ LET i == CHOOSE x \in differing : \A y \in differing : x <= y
          IN PartOr0(currentParts, i) < PartOr0(minParts, i)

checkOutdatedLibraries(html) ==
    LET outdated == SelectSeq(libraryPatterns,
                      LAMBDA lib : \E m \in html.libraries :
                                      /\ m.name = lib.name
                                      /\ isVersionOutdated(m.version, lib.minVersion))
    IN [i \in 1..Len(outdated) |->
          Finding(<<"outdated", outdated[i].name>>, "library", "medium")]

\* runAllChecks with allFindings kept from one call to the next
runAllChecksAccumulates(url, headers, html) ==
    headerFindings
    \o checkSSL(url)
    \o checkSecurityHeaders(headers)
    \o checkMixedContent(url, html)
    \o checkCookies(headers, url)
    \o checkExposedFiles(url, html)
    \o checkXSSVulnerabilities(html)
    \o checkCORS(headers)
    \o checkOutdatedLibraries(html)

runAllChecks(url, headers, html) ==
    checkSSL(url)
    \o checkSecurityHeaders(headers)
    \o checkMixedContent(url, html)
    \o checkCookies(headers, url)
    \o checkExposedFiles(url, html)
    \o checkXSSVulnerabilities(html)
    \o checkCORS(headers)
    \o checkOutdatedLibraries(html)

\* updateContext: the fields of the checker after the call
updateContext(url, headers, html) ==
    [url |-> url, headers |-> headers, html |-> html]

AllHeaderNames == HeaderNames \cup {"Set-Cookie", "Access-Control-Allow-Origin"}

\* the headers of the response the crawl variant builds: Content-Type only
MockHeaders == [h \in AllHeaderNames |-> Absent]

\* a served response: a CSP without default-src, one cookie, CORS wildcard
ServedHeaders ==
    [h \in AllHeaderNames |->
        CASE h = "Content-Security-Policy" -> Value(<<"script-src">>)
          [] h = "Set-Cookie" ->
                [present |-> TRUE,
                 value |-> RenderCookies(<<[pair |-> CookieA, attrs |-> {"Secure"}]>>),
                 sent |-> <<[pair |-> CookieA, attrs |-> {"Secure"}]>>]
          [] h = "Access-Control-Allow-Origin" -> Value(<<"*">>)
          [] OTHER -> Absent]

CheckerHeaders == {MockHeaders, ServedHeaders}

CheckerUrls == {Https \o <<"a">>, Http \o <<"a", "/", "d", "e", "v">>}

EmptyHtml ==
    [resources |-> {}, text |-> {}, forms |-> <<>>, inputs |-> FALSE,
     libraries |-> {}]

\* http resource, 'admin' in the text, a form without validation, jQuery 1.12.4
WeakHtml ==
    [resources |-> {[scheme |-> "http://", host |-> "cdn"]},
     text |-> {<<"a", "d", "m", "i", "n">>},
     forms |-> <<{"action"}>>, inputs |-> TRUE,
     libraries |-> {[name |-> "jquery", version |-> <<"1", ".", "1", "2", ".", "4">>]}]

\* https and localhost resources, a validated form, React 16.0
SoundHtml ==
    [resources |-> {[scheme |-> "https://", host |-> "cdn"],
                    [scheme |-> "http://", host |-> "localhost"]},
     text |-> {},
     forms |-> <<{"action", "required"}>>, inputs |-> TRUE,
     libraries |-> {[name |-> "react", version |-> <<"1", "6", ".", "0">>]}]

Htmls == {EmptyHtml, WeakHtml, SoundHtml}

\* new SecurityChecker(url, response, html)
CheckerInit ==
    /\ sessionData = Null /\ stored = Null /\ chats = <<>> /\ nChats = 0
    /\ tasks = {} /\ nScans = 0 /\ resp = NoResp /\ now = 0
    /\ cpc = "off" /\ maxPages = 0 /\ maxDepth = 0 /\ seed = Null /\ queue = <<>>
    /\ processedUrls = {} /\ processedCount = 0 /\ crawlFindings = <<>>
    /\ fetched = <<>> /\ called = <<>>
    /\ spc = "off" /\ variant = "off" /\ scanInput = Null /\ scanErrors = {}
    /\ scanOutput = Null
    /\ hpc = "constructed"
    /\ responseHeaders \in CheckerHeaders
    /\ headerFindings = <<>>
    /\ checkerUrl \in CheckerUrls
    /\ checkerHtml \in Htmls
    /\ runs = <<>>

\* runAllChecks on the checker as it stands (the single-page scan)
RunAllChecks ==
    /\ Len(runs) < MaxRuns
    /\ headerFindings' = runAllChecks(checkerUrl, responseHeaders, checkerHtml)
    /\ runs' = Append(runs,
                  [input |-> [url |-> checkerUrl, headers |-> responseHeaders,
                              html |-> checkerHtml],
                   output |-> headerFindings'])
    /\ hpc' = "returned"
    /\ UNCHANGED <<responseHeaders, checkerUrl, checkerHtml,
                   sessionVars, crawlVars, scanVars>>

\* the crawl callback: updateContext for the page, then runAllChecks
CheckPage(url, headers, html) ==
    /\ Len(runs) < MaxRuns
    /\ LET context == updateContext(url, headers, html) IN
         /\ checkerUrl' = context.url
         /\ responseHeaders' = context.headers
         /\ checkerHtml' = context.html
    /\ headerFindings' = runAllChecks(checkerUrl', responseHeaders', checkerHtml')
    /\ runs' = Append(runs,
                  [input |-> [url |-> url, headers |-> headers, html |-> html],
                   output |-> headerFindings'])
    /\ hpc' = "returned"
    /\ UNCHANGED <<sessionVars, crawlVars, scanVars>>

CheckerNext ==
    \/ RunAllChecks
    \/ \E url \in CheckerUrls, headers \in CheckerHeaders, html \in Htmls :
          CheckPage(url, headers, html)

CheckerSpec == CheckerInit /\ [][CheckerNext]_vars

(***************************************************************************)
(* SecurityChecker.isVersionOutdated on its own.                           *)
(***************************************************************************)
\* version strings: digits and dots, up to MaxVersionLen characters
Versions == SeqsUpTo({"0", "1", "."}, MaxVersionLen)

\* isVersionOutdated is called with any two version strings
VersionInit ==
    /\ sessionData = Null /\ stored = Null /\ chats = <<>> /\ nChats = 0
    /\ tasks = {} /\ nScans = 0 /\ resp = NoResp /\ now = 0
    /\ cpc = "off" /\ maxPages = 0 /\ maxDepth = 0 /\ seed = Null /\ queue = <<>>
    /\ processedUrls = {} /\ processedCount = 0 /\ crawlFindings = <<>>
    /\ fetched = <<>> /\ called = <<>>
    /\ spc = "off" /\ variant = "off" /\ scanErrors = {}
    /\ scanInput \in [current : Versions, minimum : Versions]
    /\ scanOutput = Null
    /\ hpc = "input" /\ responseHeaders = <<>> /\ headerFindings = <<>>
    /\ checkerUrl = <<>> /\ checkerHtml = <<>> /\ runs = <<>>

\* the call, and the call with the arguments swapped
IsVersionOutdated ==
    /\ hpc = "input"
    /\ scanOutput' =
         [outdated |-> isVersionOutdated(scanInput.current, scanInput.minimum),
          swapped |-> isVersionOutdated(scanInput.minimum, scanInput.current)]
    /\ hpc' = "returned"
    /\ UNCHANGED <<responseHeaders, headerFindings, checkerUrl, checkerHtml, runs,
                   spc, variant, scanInput, scanErrors, sessionVars, crawlVars>>

VersionNext == IsVersionOutdated

VersionSpec == VersionInit /\ [][VersionNext]_vars

(***************************************************************************)
(* AIChatService.generateResponse and its fallback.  A message is the      *)
(* sequence of its words; a reply is a record of the template used and the *)
(* values filled in.                                                       *)
(***************************************************************************)
\* toLowerCase of a word
LowerWord(w) == IF w = "Critical" THEN "critical" ELSE w

\* userMessage.toLowerCase().includes(word)
Mentions(message, word) == \E i \in 1..Len(message) : LowerWord(message[i]) = word

\* generateFallbackResponse without its branch for 'critical' and 'urgent'
generateFallbackResponseNoCritical(userMessage, scanResults) ==
    IF Mentions(userMessage, "summary") \/ Mentions(userMessage, "overview")
    THEN [template |-> "summary", url |-> scanResults.url,
          summary |-> scanResults.summary]
    ELSE [template |-> "generic", message |-> userMessage, url |-> scanResults.url,
          total |-> scanResults.summary.total,
          critical |-> scanResults.summary.critical,
          high |-> scanResults.summary.high]

generateFallbackResponse(userMessage, scanResults) ==
    IF Mentions(userMessage, "summary") \/ Mentions(userMessage, "overview")
    THEN [template |-> "summary", url |-> scanResults.url,
          summary |-> scanResults.summary]
    ELSE IF Mentions(userMessage, "critical") \/ Mentions(userMessage, "urgent")
    THEN LET criticalFindings ==
                 SelectSeq(scanResults.findings, LAMBDA f : f.severity = "critical")
         IN IF Len(criticalFindings) > 0
            THEN [template |-> "critical", count |-> Len(criticalFindings),
                  items |-> [i \in 1..Len(criticalFindings) |->
                               criticalFindings[i].title]]
            ELSE [template |-> "no critical"]
    ELSE [template |-> "generic", message |-> userMessage, url |-> scanResults.url,
          total |-> scanResults.summary.total,
          critical |-> scanResults.summary.critical,
          high |-> scanResults.summary.high]

\* generateResponse: the reply of the completion service (which is given
\* the prompt built from all three arguments), or, when the call throws,
\* the fallback
generateResponse(userMessage, scanResults, chatHistory, completion) ==
    IF completion = "answers"
    THEN [template |-> "completion",
          prompt |-> [scanResults |-> scanResults, userMessage |-> userMessage,
                      chatHistory |-> chatHistory]]
    ELSE IF scanResults # Null
    THEN generateFallbackResponse(userMessage, scanResults)
    ELSE [template |-> "apology"]

UserMessages ==
    { <<"hello">>,
      <<"Critical", "issues">>,
      <<"summary", "of", "critical", "issues">> }

ResultFindings ==
    { << [severity |-> "critical", title |-> "Site Not Using HTTPS"],
         [severity |-> "high", title |-> "Missing Content-Security-Policy"] >>,
      << [severity |-> "low", title |-> "Missing Referrer-Policy"] >> }

ScanResultsGiven ==
    {Null} \cup {[url |-> Http \o <<"a">>, status |-> "completed", findings |-> fs,
                  summary |-> calculateSummary(fs)] : fs \in ResultFindings}

ChatHistories == {<<>>, <<[role |-> "user", content |-> <<"hello">>]>>}

\* no call of generateResponse has been made
ReplyInit ==
    /\ sessionData = Null /\ stored = Null /\ chats = <<>> /\ nChats = 0
    /\ tasks = {} /\ nScans = 0 /\ resp = NoResp /\ now = 0
    /\ cpc = "off" /\ maxPages = 0 /\ maxDepth = 0 /\ seed = Null /\ queue = <<>>
    /\ processedUrls = {} /\ processedCount = 0 /\ crawlFindings = <<>>
    /\ fetched = <<>> /\ called = <<>>
    /\ spc = "off" /\ variant = "off" /\ scanInput = Null /\ scanErrors = {}
    /\ scanOutput = Null
    /\ hpc = "off" /\ responseHeaders = <<>> /\ headerFindings = <<>>
    /\ checkerUrl = <<>> /\ checkerHtml = <<>> /\ runs = <<>>

\* a call of generateResponse at time now
GenerateResponse(userMessage, scanResults, chatHistory, completion) ==
    /\ Len(runs) < MaxCalls
    /\ runs' = Append(runs,
                  [input |-> [userMessage |-> userMessage, scanResults |-> scanResults],
                   chatHistory |-> chatHistory, time |-> now,
                   completion |-> completion,
                   output |-> generateResponse(userMessage, scanResults,
                                               chatHistory, completion)])
    /\ now' = now + 1
    /\ UNCHANGED <<sessionData, stored, chats, nChats, tasks, nScans, resp,
                   hpc, responseHeaders, headerFindings, checkerUrl, checkerHtml,
                   crawlVars, scanVars>>

ReplyNext ==
    \E userMessage \in UserMessages, scanResults \in ScanResultsGiven,
       chatHistory \in ChatHistories, completion \in {"answers", "throws"} :
        GenerateResponse(userMessage, scanResults, chatHistory, completion)

ReplySpec == ReplyInit /\ [][ReplyNext]_vars

(***************************************************************************)
(* ApifyCrawler: constructor, crawl, extractLinks.                         *)
(***************************************************************************)
Hosts == {"site", "other"}
Paths == {"/", "/p", "/q"}
Urls == [host : Hosts, path : Paths]

DefaultMaxPages == 10
DefaultMaxDepth == 2

\* constructor: options.maxPages || 10 (0 stands for undefined as well as 0)
OptionMaxPages(opt) == IF opt = 0 THEN DefaultMaxPages ELSE opt

\* constructor: options.maxDepth || 2
OptionMaxDepth(opt) == IF opt = 0 THEN DefaultMaxDepth ELSE opt

\* the anchors of a fetched page, in document order: the url an href
\* resolves to, or Null for an anchor without href or with an unparsable one
Anchors == SeqsUpTo(Urls \cup {Null}, MaxLinks)

SameHost(a, base) == a # Null /\ a.host = base.host

\* extractLinks without the hostname test
extractLinksAnyHost(anchors, baseUrl) == SelectSeq(anchors, LAMBDA a : a # Null)

\* extractLinks: the resolved hrefs whose hostname is the page's hostname
extractLinks(anchors, baseUrl) == SelectSeq(anchors, LAMBDA a : SameHost(a, baseUrl))

\* the string of a crawl url: the seed is normalized and links are resolved
\* hrefs, so each has a scheme
Href(url) == Https \o <<url.host, url.path>>

\* what a callback returns for a page: no finding, or one
PageResults == {<<>>, <<Finding(<<"no-https">>, "ssl", "critical")>>}

\* findings.push(...pageFindings); each finding is kept with the page it
\* was raised on (page is not a field of SecurityFinding)
Tagged(url, pageFindings) ==
    [i \in 1..Len(pageFindings) |-> [page |-> url, finding |-> pageFindings[i]]]

\* the while condition of crawl with the limit that is off by one
LoopCondInclusive == Len(queue) > 0 /\ processedCount <= maxPages

\* the while condition of crawl
LoopCond == Len(queue) > 0 /\ processedCount < maxPages

\* a dequeue that leaves the entry in the queue
ShiftKeeps(q) == q

\* queue.shift(): the queue that is left
Shift(q) == Tail(q)

\* the depth test that also expands pages at maxDepth
DepthGuardInclusive(depth) == depth <= maxDepth

\* if (depth < this.options.maxDepth)
DepthGuard(depth) == depth < maxDepth

\* for (const link of links) if (!processedUrls.has(link)) queue.push(...)
RECURSIVE Enqueue(_, _, _, _)
Enqueue(q, links, depth, processed) ==
    IF links = <<>> THEN q
    ELSE Enqueue(IF Head(links) \notin processed
                 THEN Append(q, [url |-> Head(links), depth |-> depth])
                 ELSE q,
                 Tail(links), depth, processed)

Bump(f, u) == [f EXCEPT ![u] = @ + 1]

\* new ApifyCrawler(options).crawl(url, onPageCrawled) up to the loop; the
\* session store and the scanner take no part
CrawlInit ==
    /\ sessionData = Null /\ stored = Null /\ chats = <<>> /\ nChats = 0
    /\ tasks = {} /\ nScans = 0 /\ resp = NoResp /\ now = 0
    /\ spc = "off" /\ variant = "off" /\ scanInput = Null /\ scanErrors = {}
    /\ scanOutput = Null
    /\ hpc = "off" /\ responseHeaders = <<>> /\ headerFindings = <<>>
    /\ checkerUrl = <<>> /\ checkerHtml = <<>> /\ runs = <<>>
    /\ cpc = "loop"
    /\ \E opt \in 0..MaxPagesOption : maxPages = OptionMaxPages(opt)
    /\ \E opt \in 0..MaxDepthOption : maxDepth = OptionMaxDepth(opt)
    /\ seed \in Urls
    /\ queue = <<[url |-> seed, depth |-> 0]>>
    /\ processedUrls = {}
    /\ processedCount = 0
    /\ crawlFindings = <<>>
    /\ fetched = [u \in Urls |-> 0]
    /\ called = [u \in Urls |-> 0]

\* an iteration whose dequeued url is already processed: continue
CrawlSkip ==
    /\ cpc = "loop" /\ LoopCond
    /\ Head(queue).url \in processedUrls
    /\ queue' = Shift(queue)
    /\ UNCHANGED <<cpc, maxPages, maxDepth, seed, processedUrls, processedCount,
                   crawlFindings, fetched, called, sessionVars, scanVars, checkVars>>

\* a failed fetch that ends the crawl
CrawlFetchFailsAborts(failure) ==
    /\ cpc = "loop" /\ LoopCond
    /\ Head(queue).url \notin processedUrls
    /\ fetched' = Bump(fetched, Head(queue).url)
    /\ queue' = Shift(queue)
    /\ cpc' = "done"
    /\ UNCHANGED <<maxPages, maxDepth, seed, processedUrls, processedCount,
                   crawlFindings, called, sessionVars, scanVars, checkVars>>

\* an iteration whose fetch answers with a status that is not ok, or whose
\* fetch or response.text() throws: the entry is dropped
CrawlFetchFails(failure) ==
    /\ cpc = "loop" /\ LoopCond
    /\ Head(queue).url \notin processedUrls
    /\ fetched' = Bump(fetched, Head(queue).url)
    /\ queue' = Shift(queue)
    /\ UNCHANGED <<cpc, maxPages, maxDepth, seed, processedUrls, processedCount,
                   crawlFindings, called, sessionVars, scanVars, checkVars>>

\* an iteration whose fetch succeeds: the callback returns pageFindings, the url
\* is marked processed and counted, and below maxDepth its links are queued
\* (an extractLinks that throws is the case of no anchors)
CrawlPage(anchors, pageFindings) ==
    /\ cpc = "loop" /\ LoopCond
    /\ LET currentUrl == Head(queue).url
           depth == Head(queue).depth
       IN
         /\ currentUrl \notin processedUrls
         /\ fetched' = Bump(fetched, currentUrl)
         /\ called' = Bump(called, currentUrl)
         /\ crawlFindings' = crawlFindings \o Tagged(currentUrl, pageFindings)
         /\ processedUrls' = processedUrls \cup {currentUrl}
         /\ processedCount' = processedCount + 1
         /\ queue' = IF DepthGuard(depth)
                     THEN Enqueue(Shift(queue), extractLinks(anchors, currentUrl),
                                  depth + 1, processedUrls')
                     ELSE Shift(queue)
    /\ UNCHANGED <<cpc, maxPages, maxDepth, seed, sessionVars, scanVars, checkVars>>

\* the loop condition fails: return findings
CrawlReturn ==
    /\ cpc = "loop" /\ ~LoopCond
    /\ cpc' = "done"
    /\ UNCHANGED <<maxPages, maxDepth, seed, queue, processedUrls, processedCount,
                   crawlFindings, fetched, called, sessionVars, scanVars, checkVars>>

CrawlStep ==
    \/ CrawlSkip
    \/ \E failure \in {"not ok", "throws"} : CrawlFetchFails(failure)
    \/ \E anchors \in Anchors : \E pageFindings \in PageResults :
         CrawlPage(anchors, pageFindings)

CrawlNext == CrawlStep \/ CrawlReturn

CrawlSpec == CrawlInit /\ [][CrawlNext]_vars

\* every fetch returns or fails, so an iteration that can run does run
CrawlFairSpec == CrawlSpec /\ WF_vars(CrawlNext)

\* an iteration whose fetch gets no response: fetch is called with a
\* User-Agent header only, no signal and no timer, so the await of the loop
\* never resumes
CrawlFetchHangs ==
    /\ cpc = "loop" /\ LoopCond
    /\ Head(queue).url \notin processedUrls
    /\ fetched' = Bump(fetched, Head(queue).url)
    /\ cpc' = "awaiting fetch"
    /\ UNCHANGED <<maxPages, maxDepth, seed, queue, processedUrls, processedCount,
                   crawlFindings, called, sessionVars, scanVars, checkVars>>

SilentNext == CrawlStep \/ CrawlFetchHangs \/ CrawlReturn

\* the crawl of a site whose server may leave a request unanswered; every
\* step that can run does run
SilentFairSpec == CrawlInit /\ [][SilentNext]_vars /\ WF_vars(SilentNext)

\* an option of the caller: not supplied, or a number
NotSupplied == [present |-> FALSE, value |-> 0]
Supplied(n) == [present |-> TRUE, value |-> n]

\* what options.maxPages || 10 and options.maxDepth || 2 read
OptionValue(opt) == IF opt.present THEN opt.value ELSE 0

\* the admissible options of a crawl: maxPages >= 1, maxDepth >= 0
CrawlOptions ==
    [maxPages : {NotSupplied} \cup {Supplied(n) : n \in 1..MaxPagesOption},
     maxDepth : {NotSupplied} \cup {Supplied(n) : n \in 0..MaxDepthOption}]

\* new ApifyCrawler(options).crawl(url, onPageCrawled) up to the loop, with
\* the options of the caller kept in scanInput
CrawlOptionsInit ==
    /\ sessionData = Null /\ stored = Null /\ chats = <<>> /\ nChats = 0
    /\ tasks = {} /\ nScans = 0 /\ resp = NoResp /\ now = 0
    /\ spc = "off" /\ variant = "off" /\ scanErrors = {}
    /\ scanOutput = Null
    /\ hpc = "off" /\ responseHeaders = <<>> /\ headerFindings = <<>>
    /\ checkerUrl = <<>> /\ checkerHtml = <<>> /\ runs = <<>>
    /\ cpc = "loop"
    /\ scanInput \in CrawlOptions
    /\ maxPages = OptionMaxPages(OptionValue(scanInput.maxPages))
    /\ maxDepth = OptionMaxDepth(OptionValue(scanInput.maxDepth))
    /\ seed \in Urls
    /\ queue = <<[url |-> seed, depth |-> 0]>>
    /\ processedUrls = {}
    /\ processedCount = 0
    /\ crawlFindings = <<>>
    /\ fetched = [u \in Urls |-> 0]
    /\ called = [u \in Urls |-> 0]

CrawlOptionsSpec == CrawlOptionsInit /\ [][CrawlNext]_vars

Next == SessionNext

Spec == Init /\ [][Next]_vars

\* every background scan handed to ctx.waitUntil runs to its end: scanWebsite
\* returns once its fetches have returned or failed
ScanRuns(n) == \E t \in tasks : \E outcome \in Outcomes : t.scan = n /\ PerformScan(t, outcome)

FairSpec == Spec /\ \A n \in 1..MaxRequests : WF_vars(ScanRuns(n))

(***************************************************************************)
(* WebsiteScanner.scanWebsite.                                             *)
(***************************************************************************)
\* url strings are sequences of characters, built from these pieces
Pieces == {Http, Https, <<"a">>, <<"/">>}

\* the url arguments of scanWebsite: up to MaxPieces pieces
RawUrls == {Concat(ss) : ss \in SeqsUpTo(Pieces, MaxPieces)}

\* normalizeUrl: add https:// when no protocol, then drop one trailing slash
normalizeUrl(url) ==
    LET withProtocol == IF ~StartsWith(url, Http) /\ ~StartsWith(url, Https)
                        THEN Https \o url ELSE url
    IN IF EndsWith(withProtocol, <<"/">>) /\ Len(withProtocol) > 1
       THEN SubSeq(withProtocol, 1, Len(withProtocol) - 1)
       ELSE withProtocol

\* the findings runAllChecks can return: any sequence of findings, each with
\* one of the four severities (id, type and texts are left out)
Findings == SeqsUpTo([severity : Severities], MaxFindings)

\* a url argument that is not a string (the request body's url is any truthy
\* JSON value): url.startsWith is not a function on it
NotAString == <<"not a string">>

Variants == {"single", "crawl"}

\* scanWebsite(url) is called; the session store and the crawler take no part
ScanInit ==
    /\ sessionData = Null /\ stored = Null /\ chats = <<>> /\ nChats = 0
    /\ tasks = {} /\ nScans = 0 /\ resp = NoResp /\ now = 0
    /\ cpc = "off" /\ maxPages = 0 /\ maxDepth = 0 /\ seed = Null /\ queue = <<>>
    /\ processedUrls = {} /\ processedCount = 0 /\ crawlFindings = <<>>
    /\ fetched = <<>> /\ called = <<>>
    /\ spc = "input"
    /\ variant \in Variants
    /\ scanInput \in RawUrls \cup {NotAString}
    /\ scanErrors = {}
    /\ scanOutput = Null
    /\ hpc = "off" /\ responseHeaders = <<>> /\ headerFindings = <<>>
    /\ checkerUrl = <<>> /\ checkerHtml = <<>> /\ runs = <<>>

\* the errors that leave the try block of scanner.ts: normalizeUrl throws on
\* a url that is no string, fetch throws, the response is not ok
SingleCauses == {"normalize throws", "fetch throws", "not ok"}

\* the errors that leave the try block of the crawl variant: normalizeUrl
\* throws, the ApifyCrawler constructor throws
CrawlCauses == {"normalize throws", "crawler throws"}

\* the errors crawl() catches page by page: the scan goes on
PageErrors == {"fetch throws", "not ok"}

Thrown(cause, url) == (cause = "normalize throws") <=> (url = NotAString)

\* the result of the catch block, with the url mapped through normalizeUrl
FailedResultNormalized(url) ==
    [url |-> normalizeUrl(url), status |-> "failed", findings |-> <<>>,
     summary |-> ZeroSummary]

\* the result of the catch block
FailedResult(url) ==
    [url |-> url, status |-> "failed", findings |-> <<>>, summary |-> ZeroSummary]

\* the catch block of scanner.ts
ScanFails(cause) ==
    /\ spc = "input" /\ variant = "single"
    /\ Thrown(cause, scanInput)
    /\ scanErrors' = {cause}
    /\ scanOutput' = FailedResult(scanInput)
    /\ spc' = "returned"
    /\ UNCHANGED <<variant, scanInput, sessionVars, crawlVars, checkVars>>

\* scanner.ts: the page was fetched and checked
ScanCompletes(findings) ==
    /\ spc = "input" /\ variant = "single"
    /\ scanInput # NotAString
    /\ scanErrors' = {}
    /\ scanOutput' = [url |-> normalizeUrl(scanInput), status |-> "completed",
                      findings |-> findings, summary |-> calculateSummary(findings)]
    /\ spc' = "returned"
    /\ UNCHANGED <<variant, scanInput, sessionVars, crawlVars, checkVars>>

\* the catch block of the crawl variant
CrawlScanFails(cause) ==
    /\ spc = "input" /\ variant = "crawl"
    /\ Thrown(cause, scanInput)
    /\ scanErrors' = {cause}
    /\ scanOutput' = FailedResult(scanInput)
    /\ spc' = "returned"
    /\ UNCHANGED <<variant, scanInput, sessionVars, crawlVars, checkVars>>

\* pagesScanned: no finding has a url, so every finding maps to targetUrl
PagesScanned(findings, targetUrl) ==
    IF Len(findings) > 0
    THEN Cardinality({targetUrl : i \in 1..Len(findings)})
    ELSE 1

\* the crawl variant: crawl() returned; pageErrors are the errors it caught
\* and skipped, findings what the callback collected from the pages checked
CrawlScanCompletes(findings, pageErrors) ==
    /\ spc = "input" /\ variant = "crawl"
    /\ scanInput # NotAString
    /\ scanErrors' = pageErrors
    /\ LET targetUrl == normalizeUrl(scanInput) IN
       scanOutput' = [url |-> targetUrl, status |-> "completed",
                      findings |-> findings, summary |-> calculateSummary(findings),
                      pagesScanned |-> PagesScanned(findings, targetUrl)]
    /\ spc' = "returned"
    /\ UNCHANGED <<variant, scanInput, sessionVars, crawlVars, checkVars>>

ScanNext ==
    \/ \E cause \in SingleCauses : ScanFails(cause)
    \/ \E findings \in Findings : ScanCompletes(findings)
    \/ \E cause \in CrawlCauses : CrawlScanFails(cause)
    \/ \E findings \in Findings, pageErrors \in SUBSET PageErrors :
           CrawlScanCompletes(findings, pageErrors)

ScanSpec == ScanInit /\ [][ScanNext]_vars

(***************************************************************************)
(* WebsiteScanner.scanWebsite, crawl variant, with the crawl it awaits and *)
(* the checks its callback runs.                                           *)
(***************************************************************************)
\* the html of the pages fetched
CrawlHtmls == {EmptyHtml, WeakHtml}

\* the callback scanWebsite passes to crawl: the findings runAllChecks
\* returns for the page after updateContext with a response that carries
\* Content-Type only (the checks do not throw on a url that was fetched)
onPageCrawled(url, html) ==
    LET context == updateContext(Href(url), MockHeaders, html)
    IN runAllChecks(context.url, context.headers, context.html)

\* an iteration of the crawl whose fetch succeeds, with this callback
CrawlScanPage(anchors, html) ==
    /\ cpc = "loop" /\ LoopCond
    /\ CrawlPage(anchors, onPageCrawled(Head(queue).url, html))

\* allFindings: what the callback pushed, page after page
allFindings == [i \in 1..Len(crawlFindings) |-> crawlFindings[i].finding]

\* crawl() has returned: the completed result
CrawlResult ==
    /\ cpc = "done"
    /\ LET targetUrl == Href(seed) IN
       scanOutput' = [url |-> targetUrl, status |-> "completed",
                      findings |-> allFindings,
                      summary |-> calculateSummary(allFindings),
                      pagesScanned |-> PagesScanned(allFindings, targetUrl)]
    /\ cpc' = "returned"
    /\ UNCHANGED <<maxPages, maxDepth, seed, queue, processedUrls, processedCount,
                   crawlFindings, fetched, called, sessionVars, checkVars,
                   spc, variant, scanInput, scanErrors>>

CrawlScanNext ==
    \/ CrawlSkip
    \/ \E failure \in {"not ok", "throws"} : CrawlFetchFails(failure)
    \/ \E anchors \in Anchors : \E html \in CrawlHtmls : CrawlScanPage(anchors, html)
    \/ CrawlReturn
    \/ CrawlResult

CrawlScanSpec == CrawlInit /\ [][CrawlScanNext]_vars

(***************************************************************************)
(* One page of a crawl scan: the response crawl fetched, and what the      *)
(* callback of scanWebsite makes of it.                                    *)
(***************************************************************************)
\* the value a served header has when the server sends it
ServedValue(h) ==
    CASE h = "Content-Security-Policy" -> Value(<<"default-src">>)
      [] h = "Set-Cookie" ->
            [present |-> TRUE,
             value |-> RenderCookies(<<[pair |-> CookieA, attrs |-> {}]>>),
             sent |-> <<[pair |-> CookieA, attrs |-> {}]>>]
      [] h = "Access-Control-Allow-Origin" -> Value(<<"*">>)
      [] OTHER -> Value(<<"on">>)

\* the headers of the responses a site serves: any of the headers the
\* checks read, sent or not
ServedResponses ==
    {[h \in AllHeaderNames |-> IF h \in sent THEN ServedValue(h) ELSE Absent] :
        sent \in SUBSET AllHeaderNames}

\* crawl has fetched a page: scanInput is the response (url, headers, html)
PageInit ==
    /\ sessionData = Null /\ stored = Null /\ chats = <<>> /\ nChats = 0
    /\ tasks = {} /\ nScans = 0 /\ resp = NoResp /\ now = 0
    /\ cpc = "off" /\ maxPages = 0 /\ maxDepth = 0 /\ seed = Null /\ queue = <<>>
    /\ processedUrls = {} /\ processedCount = 0 /\ crawlFindings = <<>>
    /\ fetched = <<>> /\ called = <<>>
    /\ spc = "off" /\ variant = "crawl" /\ scanErrors = {}
    /\ scanOutput = Null
    /\ scanInput \in [url : Urls, headers : ServedResponses, html : CrawlHtmls]
    /\ hpc = "fetched"
    /\ responseHeaders = <<>>
    /\ headerFindings = <<>>
    /\ checkerUrl = <<>> /\ checkerHtml = <<>> /\ runs = <<>>

\* crawl hands (currentUrl, html) of the response to the callback, which
\* builds its own response, updates the checker and runs the checks
PageCallback ==
    /\ hpc = "fetched"
    /\ LET context == updateContext(Href(scanInput.url), MockHeaders, scanInput.html) IN
         /\ checkerUrl' = context.url
         /\ responseHeaders' = context.headers
         /\ checkerHtml' = context.html
    /\ headerFindings' = onPageCrawled(scanInput.url, scanInput.html)
    /\ hpc' = "returned"
    /\ UNCHANGED <<runs, sessionVars, crawlVars, scanVars>>

PageNext == PageCallback

PageSpec == PageInit /\ [][PageNext]_vars

(***************************************************************************)
(* The checks on a url that the URL constructor rejects.                   *)
(***************************************************************************)
SchemeLetters == {"h", "t", "p", "s", "a", "d", "e", "v"}

\* new URL(url) returns: the string starts with a scheme and a colon, and
\* an http(s) url names a host
Parses(url) ==
    /\ \E i \in 2..Len(url) :
          url[i] = ":" /\ \A j \in 1..(i - 1) : url[j] \in SchemeLetters
    /\ url \notin {Http, Https}

TypeError == [threw |-> TRUE, error |-> "TypeError"]

Returned(findings) == [threw |-> FALSE, findings |-> findings]

\* checkSSL, with the exception of new URL(this.url)
tryCheckSSL(url) == IF Parses(url) THEN Returned(checkSSL(url)) ELSE TypeError

\* runAllChecks: checkSSL is the first call and nothing catches what it
\* throws, so the exception leaves runAllChecks
tryRunAllChecks(url, headers, html) ==
    IF tryCheckSSL(url).threw
    THEN tryCheckSSL(url)
    ELSE Returned(runAllChecks(url, headers, html))

\* the empty string, a path, a host without scheme, a scheme without host
UnparsableUrls == {<<>>, <<"/", "d", "e", "v">>, <<"a", "/", "d", "e", "v">>, Https}

\* new SecurityChecker(url, response, html) with any string as url
AnyUrlInit ==
    /\ sessionData = Null /\ stored = Null /\ chats = <<>> /\ nChats = 0
    /\ tasks = {} /\ nScans = 0 /\ resp = NoResp /\ now = 0
    /\ cpc = "off" /\ maxPages = 0 /\ maxDepth = 0 /\ seed = Null /\ queue = <<>>
    /\ processedUrls = {} /\ processedCount = 0 /\ crawlFindings = <<>>
    /\ fetched = <<>> /\ called = <<>>
    /\ spc = "off" /\ variant = "off" /\ scanInput = Null /\ scanErrors = {}
    /\ scanOutput = Null
    /\ hpc = "constructed"
    /\ responseHeaders \in ServedResponses
    /\ headerFindings = <<>>
    /\ checkerUrl \in CheckerUrls \cup UnparsableUrls
    /\ checkerHtml \in Htmls
    /\ runs = <<>>

\* a call of runAllChecks: scanOutput is how the call ended
TryRunAllChecks ==
    /\ hpc = "constructed"
    /\ scanOutput' = tryRunAllChecks(checkerUrl, responseHeaders, checkerHtml)
    /\ headerFindings' = IF scanOutput'.threw THEN headerFindings
                         ELSE scanOutput'.findings
    /\ hpc' = "returned"
    /\ UNCHANGED <<responseHeaders, checkerUrl, checkerHtml, runs, sessionVars,
                   crawlVars, spc, variant, scanInput, scanErrors>>

AnyUrlNext == TryRunAllChecks

AnyUrlSpec == AnyUrlInit /\ [][AnyUrlNext]_vars

(***************************************************************************)
(* The crawl on url strings: the seed as normalizeUrl leaves it, the links *)
(* as URL.toString() writes them.                                          *)
(***************************************************************************)
\* what scanWebsite may be given for the site a: with and without protocol,
\* with and without trailing slash, and a page below the root
SeedInputs ==
    { <<"a">>, <<"a", "/">>, Https \o <<"a">>, Https \o <<"a", "/">>,
      <<"a", "/", "p">> }

\* the href attributes of a page: none, the root, a page, the site, another site
HrefValues == { <<>>, <<"/">>, <<"/", "p">>, Https \o <<"a">>, Https \o <<"b", "/">> }

HrefLists == SeqsUpTo(HrefValues, MaxLinks)

\* new URL(str) of an https url: the path of a url without path is "/"
ParseUrl(str) ==
    LET rest == SubSeq(str, Len(Https) + 1, Len(str)) IN
    [hostname |-> <<Head(rest)>>,
     pathname |-> IF Len(rest) = 1 THEN <<"/">> ELSE Tail(rest)]

\* new URL(href, baseUrl)
ResolveUrl(href, baseUrl) ==
    IF StartsWith(href, Https) THEN ParseUrl(href)
    ELSE [hostname |-> ParseUrl(baseUrl).hostname, pathname |-> href]

\* url.toString()
toString(url) == Https \o url.hostname \o url.pathname

\* extractLinks on strings: anchors without href are skipped, links to other
\* hosts dropped, the others pushed as url.toString()
extractLinkStrings(hrefs, baseUrl) ==
    LET kept == SelectSeq(hrefs, LAMBDA href :
                    /\ href # <<>>
                    /\ ResolveUrl(href, baseUrl).hostname = ParseUrl(baseUrl).hostname)
    IN [i \in 1..Len(kept) |-> toString(ResolveUrl(kept[i], baseUrl))]

\* the strings that can stand in the queue
UrlStrings == {Https \o <<"a">> \o p : p \in {<<>>, <<"/">>, <<"/", "p">>}}

\* scanWebsite has normalized its url and calls crawl with it
SeedInit ==
    /\ sessionData = Null /\ stored = Null /\ chats = <<>> /\ nChats = 0
    /\ tasks = {} /\ nScans = 0 /\ resp = NoResp /\ now = 0
    /\ spc = "off" /\ variant = "crawl" /\ scanErrors = {}
    /\ scanOutput = Null
    /\ hpc = "off" /\ responseHeaders = <<>> /\ headerFindings = <<>>
    /\ checkerUrl = <<>> /\ checkerHtml = <<>> /\ runs = <<>>
    /\ cpc = "loop"
    /\ \E opt \in 0..MaxPagesOption : maxPages = OptionMaxPages(opt)
    /\ \E opt \in 0..MaxDepthOption : maxDepth = OptionMaxDepth(opt)
    /\ scanInput \in [url : SeedInputs]
    /\ seed = normalizeUrl(scanInput.url)
    /\ queue = <<[url |-> seed, depth |-> 0]>>
    /\ processedUrls = {}
    /\ processedCount = 0
    /\ crawlFindings = <<>>
    /\ fetched = [u \in UrlStrings |-> 0]
    /\ called = [u \in UrlStrings |-> 0]

\* an iteration whose fetch succeeds, with the href attributes of the page
SeedCrawlPage(hrefs, pageFindings) ==
    /\ cpc = "loop" /\ LoopCond
    /\ LET currentUrl == Head(queue).url
           depth == Head(queue).depth
       IN
         /\ currentUrl \notin processedUrls
         /\ fetched' = Bump(fetched, currentUrl)
         /\ called' = Bump(called, currentUrl)
         /\ crawlFindings' = crawlFindings \o Tagged(currentUrl, pageFindings)
         /\ processedUrls' = processedUrls \cup {currentUrl}
         /\ processedCount' = processedCount + 1
         /\ queue' = IF DepthGuard(depth)
                     THEN Enqueue(Shift(queue), extractLinkStrings(hrefs, currentUrl),
                                  depth + 1, processedUrls')
                     ELSE Shift(queue)
    /\ UNCHANGED <<cpc, maxPages, maxDepth, seed, sessionVars, scanVars, checkVars>>

SeedNext ==
    \/ CrawlSkip
    \/ \E failure \in {"not ok", "throws"} : CrawlFetchFails(failure)
    \/ \E hrefs \in HrefLists : \E pageFindings \in PageResults :
         SeedCrawlPage(hrefs, pageFindings)
    \/ CrawlReturn

SeedSpec == SeedInit /\ [][SeedNext]_vars


(***************************************************************************)
(* Claims about the session store and the HTTP surface  (Spec).            *)
(***************************************************************************)
\* the chat history of the session in memory
History == IF sessionData = Null THEN <<>> ELSE sessionData.chatHistory

\* the scan ids createOrLoad has issued so far: the durable object keeps one
\* session, created by the first initiateScan and never removed
Issued == IF stored = Null THEN {} ELSE {stored.scanId}

\* C1: concurrent appendChat calls never interleave: every assistant message
\* immediately follows the user message of the same call, and the calls'
\* messages appear in arrival order
C1_ChatNeverInterleaves ==
    /\ \A i \in 1..Len(History) :
         History[i].role = "assistant" =>
           /\ i > 1
           /\ History[i - 1].role = "user"
           /\ History[i - 1].req = History[i].req
    /\ \A i, j \in 1..Len(History) : i < j => History[i].req <= History[j].req

\* C2: operations on one session are serialized: while an appendChat waits
\* between its two appends, the session's url and scanResult are those it
\* saw when it appended the user message
C2_ChatSerialized ==
    \A r \in Awaiting :
        /\ sessionData.url = chats[r].url
        /\ sessionData.scanResult = chats[r].scanResult

\* C3: createOrLoad on an existing session with another url leaves the new
\* url, no scanResult and an empty chatHistory, in memory and persisted; with
\* the same url it leaves scanResult and chatHistory as they were
C3_SessionReset ==
    [][\A url \in TargetUrls :
         (PostScan(url) /\ Loaded # Null) =>
            /\ stored' = sessionData'
            /\ sessionData'.url = url
            /\ IF Loaded.url # url
               THEN sessionData'.scanResult = Null /\ sessionData'.chatHistory = <<>>
               ELSE /\ sessionData'.scanResult = Loaded.scanResult
                    /\ sessionData'.chatHistory = Loaded.chatHistory]_vars

\* C3 witness: a scan request has just been answered on a session that is
\* empty again although a chat on it was answered and a scan had ended
C3_ResetReached ==
    /\ resp.route = "scan" /\ resp.do = 200
    /\ sessionData.chatHistory = <<>>
    /\ sessionData.scanResult = Null
    /\ nScans = 2
    /\ tasks = {[scan |-> 2, url |-> sessionData.url, pc |-> "try"]}
    /\ \E r \in ChatIds : chats[r].pc = "done"

\* C3 witness of the other case: a scan request for the stored url has just
\* kept a non-empty chat history and a scan result
C3_KeptReached ==
    /\ resp.route = "scan" /\ resp.do = 200
    /\ Len(sessionData.chatHistory) > 0
    /\ sessionData.scanResult # Null

\* C4: getStatus and appendChat on a key no createOrLoad ever issued fail
\* with NotFound: no session data is returned and no message is appended
C4_UnknownKeyNotFound ==
    /\ (resp.route \in {"status", "chat"} /\ resp.do # 0 /\ resp.key \notin Issued)
          => resp.body = NoSessionBody
    /\ \A r \in Awaiting : chats[r].key \in Issued

\* C5: when the session store reports that no session exists, the status,
\* chat and history routes answer with HTTP status 404
C5_NotFoundIs404 ==
    (resp.route \in {"status", "chat", "history"} /\ resp.do = 404) => resp.http = 404

(***************************************************************************)
(* Claims about the crawler  (CrawlSpec, CrawlFairSpec).                   *)
(***************************************************************************)
RECURSIVE Total(_, _)
Total(f, S) ==
    IF S = {} THEN 0
    ELSE LET u == CHOOSE x \in S : TRUE IN f[u] + Total(f, S \ {u})

\* a fetch failed: some url was fetched more often than it was checked
SomeFetchFailed == \E u \in Urls : fetched[u] > called[u]

\* C7: the crawl terminates on every finite site, cyclic and densely linked
\* ones and failing fetches included, when every fetch returns or fails
C7_CrawlTerminates == <>(cpc = "done")

\* C7 witness: a crawl that processed two pages and had a fetch fail has
\* emptied its queue and returned
C7_TerminatedReached ==
    /\ cpc = "done"
    /\ processedCount >= 2
    /\ SomeFetchFailed
    /\ queue = <<>>

\* C8: the number of processed pages, and of callback invocations, never
\* exceeds maxPages
C8_AtMostMaxPages ==
    cpc # "off" => /\ processedCount <= maxPages
                   /\ Total(called, Urls) <= maxPages

\* C8 witness: the crawl stopped at maxPages with links still queued, after a
\* fetch had failed
C8_LimitReached ==
    /\ cpc = "done"
    /\ processedCount = maxPages
    /\ Len(queue) > 0
    /\ SomeFetchFailed

\* C9: each url is visited at most once in a crawl: fetched at most once and
\* handed to the callback at most once
C9_VisitedAtMostOnce ==
    cpc # "off" => \A u \in Urls : fetched[u] <= 1 /\ called[u] <= 1

\* the part of C9 the code keeps: the callback sees each url at most once
C9_CalledAtMostOnce ==
    cpc # "off" => \A u \in Urls : called[u] <= 1

QueueDepthBounded == \A i \in 1..Len(queue) : queue[i].depth <= maxDepth

\* C10: every queue entry has depth at most maxDepth, and a page processed at
\* depth maxDepth is checked by the callback and enqueues none of its links
C10_DepthBound ==
    /\ []QueueDepthBounded
    /\ [][(/\ cpc = "loop" /\ LoopCond
           /\ Head(queue).depth = maxDepth
           /\ processedCount' = processedCount + 1)
          => /\ called' = Bump(called, Head(queue).url)
             /\ queue' = Tail(queue)]_vars

\* C10 witness: with maxDepth 1 a second page, found at depth 1, has been
\* processed and the queue is empty
C10_MaxDepthPageProcessed ==
    /\ maxDepth = 1
    /\ processedCount = 2
    /\ queue = <<>>

C15_LastWriteWins ==
    [][(stored # Null /\ stored' # Null /\ stored'.url = stored.url) =>
          /\ \A t \in tasks \ tasks' :
                /\ stored'.scanResult # Null
                /\ stored'.scanResult.scan = t.scan
                /\ stored'.scanResult.url = t.url
          /\ tasks \subseteq tasks' => stored'.scanResult = stored.scanResult]_vars

\* C15 witness: two scans of the same url were requested, both results have
\* been applied, and the stored one is that of the scan started first
C15_OlderScanWroteLast ==
    /\ nScans = 2
    /\ tasks = {}
    /\ stored # Null
    /\ stored.scanResult # Null
    /\ stored.scanResult.scan = 1
    /\ stored.scanResult.url = stored.url

\* C16: a handleChat with a message on an existing session ends with a
\* reply, whether the completion service answered or the fallback was used:
\* when it ends, the stored history ends with the user message of this call
\* followed by its assistant message, and the response carries the text and
\* the id of that assistant message
C16_ChatAppendsPair ==
    [][\A r \in ChatIds :
          (chats[r].pc = "await" /\ chats'[r].pc = "done") =>
             LET h == stored'.chatHistory
                 n == Len(h) IN
             /\ n >= 2
             /\ h[n - 1] = ChatMessage(r, "user", chats[r].message)
             /\ h[n].role = "assistant" /\ h[n].req = r
             /\ resp'.body = [message |-> h[n].content, messageId |-> h[n].id]]_vars

\* C18: a request without its required field is answered 400 and changes
\* nothing: POST /api/scan without url leaves session, storage and background
\* scans as they are, POST /api/chat/{scanId} without message leaves the chat
\* history and the pending chats as they are
C18_MissingFieldRejected ==
    [][/\ PostScanMissing =>
             /\ resp'.http = 400
             /\ UNCHANGED <<sessionData, stored, tasks, nScans, chats, nChats>>
       /\ \A key \in PathKeys : PostChatMissing(key) =>
             /\ resp'.http = 400
             /\ UNCHANGED <<sessionData, stored, tasks, nScans, chats, nChats>>]_vars

\* C18 witness: a chat request without message was rejected while a session
\* with a conversation and a pending scan exists
C18_RejectedOnLiveSession ==
    /\ resp.route = "chat"
    /\ resp.http = 400
    /\ resp.body = [error |-> "Message is required"]
    /\ stored # Null
    /\ Len(stored.chatHistory) = 2
    /\ tasks # {}

(***************************************************************************)
(* Claims about ScanSession with a clock  (StoreSpec).                     *)
(***************************************************************************)
\* C14: updateScanResult on a durable object without session creates no
\* session, stores nothing and answers success; on an existing session it
\* sets scanResult to the posted result and lastActivity to the current
\* time, stores the session, and leaves url, scanId, createdAt and
\* chatHistory as they were
C14_UpdateScanResultFrame ==
    [][\A result \in PostedResults : UpdateScanResult(result) =>
          /\ resp'.body = [success |-> TRUE]
          /\ resp'.do = 200
          /\ IF Loaded = Null
             THEN sessionData' = Null /\ stored' = Null
             ELSE /\ sessionData'.scanResult = result
                  /\ sessionData'.lastActivity = now
                  /\ sessionData'.url = Loaded.url
                  /\ sessionData'.scanId = Loaded.scanId
                  /\ sessionData'.createdAt = Loaded.createdAt
                  /\ sessionData'.chatHistory = Loaded.chatHistory
                  /\ stored' = sessionData']_vars

\* C14 witness: a result was applied to a session created earlier that holds
\* a conversation
C14_AppliedToOlderSession ==
    /\ resp.route = "update-scan-result"
    /\ stored # Null
    /\ stored.scanResult # Null
    /\ stored.lastActivity = now
    /\ stored.createdAt < now
    /\ Len(stored.chatHistory) = 2

\* C14, the other case: update-scan-result was answered on a durable object
\* that has no session, and there is still none
C14_NoSessionReached ==
    /\ resp.route = "update-scan-result"
    /\ sessionData = Null
    /\ stored = Null

(***************************************************************************)
(* Claims about the scanner  (ScanSpec).                                   *)
(***************************************************************************)
\* C6: in every ScanResult scanWebsite returns, completed or failed,
\* summary.total is the number of findings and the four severity counters
\* add up to summary.total
C6_SummaryConsistent ==
    spc = "returned" =>
        LET summary == scanOutput.summary IN
        /\ summary.total = Len(scanOutput.findings)
        /\ summary.critical + summary.high + summary.medium + summary.low
             = summary.total

\* C6 witness: a completed result with a low, a high and a critical finding
C6_MixedResultReached ==
    /\ spc = "returned"
    /\ scanOutput.status = "completed"
    /\ Len(scanOutput.findings) = 3
    /\ {scanOutput.findings[i].severity : i \in 1..3} = {"low", "high", "critical"}

\* C11 as stated: scanWebsite returns a failed result with the original url,
\* no findings and a zero summary whenever an error occurred in normalization,
\* fetching, crawling or checking, and a completed result with the
\* normalized url otherwise
C11_AnyErrorFails ==
    spc = "returned" =>
        IF scanErrors # {}
        THEN /\ scanOutput.status = "failed"
             /\ scanOutput.url = scanInput
             /\ scanOutput.findings = <<>>
             /\ scanOutput.summary = ZeroSummary
        ELSE /\ scanOutput.status = "completed"
             /\ scanOutput.url = normalizeUrl(scanInput)

\* C11 amended: scanWebsite never raises and returns either a failed result
\* (original url, no findings, zero summary) or a completed result with the
\* normalized url; in scanner.ts every error gives the failed result, in the
\* crawl variant only an error that leaves crawl's per-page handling does
\* (normalization, constructing the crawler), while a page whose fetch fails
\* is skipped and the result is completed
C11_ErrorsBecomeResults ==
    /\ spc \in {"off", "input", "returned"}
    /\ spc = "returned" =>
        /\ scanOutput.status \in {"completed", "failed"}
        /\ scanOutput.status = "failed" =>
               /\ scanOutput.url = scanInput
               /\ scanOutput.findings = <<>>
               /\ scanOutput.summary = ZeroSummary
        /\ scanOutput.status = "completed" =>
               scanOutput.url = normalizeUrl(scanInput)
        /\ variant = "single" =>
               (scanOutput.status = "failed" <=> scanErrors # {})
        /\ variant = "crawl" =>
               (scanOutput.status = "failed" <=> scanErrors \cap CrawlCauses # {})

\* C11 witness: a scan failed on a fetch error and returned the url as given,
\* which is not the normalized one
C11_FailedKeepsRawUrl ==
    /\ spc = "returned"
    /\ scanErrors = {"fetch throws"}
    /\ scanOutput.status = "failed"
    /\ scanOutput.url # normalizeUrl(scanInput)

\* C17: every completed operation on an existing session (initiateScan,
\* updateScanResult, handleChat, getStatus, getChatHistory) leaves the
\* session's lastActivity at the time of the operation
C17_EveryOperationTouches ==
    [][(/\ Loaded # Null
        /\ resp' # resp
        /\ resp'.route \in {"scan", "update-scan-result", "chat", "status", "history"}
        /\ resp'.do = 200)
          => sessionData'.lastActivity = now]_vars

(***************************************************************************)
(* Claims about normalizeUrl  (ScanSpec) and the header check (CheckSpec). *)
(***************************************************************************)
\* C19: normalizeUrl is idempotent: for every url string,
\* normalizeUrl(normalizeUrl(url)) = normalizeUrl(url)
C19_NormalizeIdempotent ==
    scanInput \in RawUrls =>
        normalizeUrl(normalizeUrl(scanInput)) = normalizeUrl(scanInput)

\* number of findings with a given id
CountId(findings, id) == Cardinality({i \in 1..Len(findings) : findings[i].id = id})

\* the findings are exactly: one per table entry whose header is in the set
\* flagged, with the entry's severity, and one medium CSP finding iff cspWeak
HeaderFindingsAre(findings, flagged, cspWeak) ==
    /\ \A i \in 1..Len(securityHeaders) :
          LET entry == securityHeaders[i] IN
          /\ CountId(findings, <<"missing", entry.header>>)
               = IF entry.header \in flagged THEN 1 ELSE 0
          /\ \A j \in 1..Len(findings) :
                findings[j].id = <<"missing", entry.header>>
                   => findings[j].severity = entry.severity
    /\ CountId(findings, <<"csp-no-default-src">>) = IF cspWeak THEN 1 ELSE 0
    /\ \A j \in 1..Len(findings) :
          findings[j].id = <<"csp-no-default-src">> => findings[j].severity = "medium"
    /\ Len(findings) = Cardinality(flagged) + IF cspWeak THEN 1 ELSE 0

\* C20 as stated: checkSecurityHeaders returns one finding per header the
\* response does not have, with the table's severity, plus one medium finding
\* iff the response has a CSP header without default-src (6 findings for a
\* response without headers)
C20_OnePerAbsentHeader ==
    hpc = "returned" =>
        LET csp == responseHeaders["Content-Security-Policy"] IN
        HeaderFindingsAre(headerFindings,
                          {h \in HeaderNames : ~responseHeaders[h].present},
                          csp.present /\ ~Includes(csp, "default-src"))

\* C20 amended: checkSecurityHeaders returns one finding per header that the
\* response does not have or has with an empty value, with the table's
\* severity, plus one medium finding iff the CSP header has a non-empty
\* value without default-src (6 findings for a response without headers)
C20_OnePerFalsyHeader ==
    hpc = "returned" =>
        LET csp == responseHeaders["Content-Security-Policy"] IN
        /\ HeaderFindingsAre(headerFindings,
                             {h \in HeaderNames : ~Truthy(responseHeaders[h])},
                             Truthy(csp) /\ ~Includes(csp, "default-src"))
        /\ (\A h \in HeaderNames : ~responseHeaders[h].present)
              => Len(headerFindings) = 6

\* C20 witness: the response has a CSP without default-src and no other
\* security header: five missing-header findings and the CSP finding
C20_WeakCspOnlyReached ==
    /\ hpc = "returned"
    /\ responseHeaders["Content-Security-Policy"] = Value(<<"script-src">>)
    /\ \A h \in HeaderNames \ {"Content-Security-Policy"} : ~responseHeaders[h].present
    /\ Len(headerFindings) = 6
    /\ headerFindings[6].id = <<"csp-no-default-src">>

(***************************************************************************)
(* Claims about the checks  (CookieSpec, CheckerSpec).                     *)
(***************************************************************************)
\* the findings expected of the cookie at index: one per attribute the
\* server did not send, Secure only on an https page
ExpectedCookieFindings(c, index, url) ==
    (IF "Secure" \notin c.attrs /\ StartsWith(url, Https)
     THEN <<CookieFinding(index, "no-secure", "medium")>> ELSE <<>>)
    \o (IF "HttpOnly" \notin c.attrs
        THEN <<CookieFinding(index, "no-httponly", "medium")>> ELSE <<>>)
    \o (IF "SameSite" \notin c.attrs
        THEN <<CookieFinding(index, "no-samesite", "low")>> ELSE <<>>)

\* C21: checkCookies returns, for each cookie of Set-Cookie on its own, one
\* finding per attribute the cookie lacks among Secure (https pages only,
\* medium), HttpOnly (medium) and SameSite (low), with the cookie's index in
\* the id: 3 findings for 'a=1' on an https page, none for a cookie with
\* all three attributes
C21_OnePerMissingAttribute ==
    (hpc = "returned" /\ "Set-Cookie" \in DOMAIN responseHeaders) =>
        LET got == responseHeaders["Set-Cookie"]
            sent == IF got.present THEN got.sent ELSE <<>>
        IN headerFindings =
             Concat([i \in 1..Len(sent) |->
                       ExpectedCookieFindings(sent[i], i - 1, checkerUrl)])

\* C22: two runAllChecks on the same url, response headers and html return
\* the same findings, in the same order, whatever page the checker was
\* given in between
C22_SameInputSameFindings ==
    \A i, j \in 1..Len(runs) :
        runs[i].input = runs[j].input => runs[i].output = runs[j].output

\* a page was checked twice, with a page of other findings in between
C22_RecheckedReached ==
    /\ Len(runs) = 3
    /\ runs[1].input = runs[3].input
    /\ runs[2].input.html # runs[1].input.html
    /\ runs[2].output # runs[1].output
    /\ Len(runs[1].output) > 2

(***************************************************************************)
(* Claims about the result of a crawl scan  (CrawlScanSpec).               *)
(***************************************************************************)
\* C23: in a scan result no two findings have the same id, also when the
\* crawl processed more than one page
C23_FindingIdsUnique ==
    cpc = "returned" =>
        \A i, j \in 1..Len(scanOutput.findings) :
            i # j => scanOutput.findings[i].id # scanOutput.findings[j].id

\* the pages that contributed at least one finding
ContributingPages == {crawlFindings[i].page : i \in 1..Len(crawlFindings)}

\* C24: pagesScanned of a completed crawl result is the number of distinct
\* pages that contributed a finding (1 when none did)
C24_PagesScannedCountsPages ==
    (cpc = "returned" /\ scanOutput.status = "completed") =>
        scanOutput.pagesScanned =
            IF Len(crawlFindings) = 0 THEN 1 ELSE Cardinality(ContributingPages)

(***************************************************************************)
(* Further claims about the session  (Spec).                               *)
(***************************************************************************)
\* C25: once a scan request has changed the session's url, the chat history
\* holds no message, user or assistant, of a chat request received before
\* the change, also when that request was still waiting for the completion
\* service at the change
C25_NoMessageAcrossUrlChange ==
    [][\A r \in ChatIds :
          (/\ chats[r].pc = "await"
           /\ sessionData' # Null
           /\ chats[r].url # sessionData'.url) =>
             \A i \in 1..Len(sessionData'.chatHistory) :
                 sessionData'.chatHistory[i].req # r]_vars

\* C26: while the scan requested last has not had its result applied, a
\* getStatus on the session reports no scanResult, also when that request
\* named the url the session already had
C26_PendingReportsNoResult ==
    (/\ resp.route = "status" /\ resp.do = 200
     /\ \E t \in tasks : t.scan = nScans) =>
        resp.body.scanResult = Null

\* C27: a scan's status never leaves a terminal value: once a result of a
\* scan request has been applied, performScan has no further result to
\* apply for that request, and the session never shows the result of one
\* request going from completed to failed or back
C27_OneResultPerRequest ==
    [][/\ \A t \in tasks \ tasks' : \A u \in tasks' : u.scan # t.scan
       /\ (/\ sessionData # Null /\ sessionData' # Null
           /\ sessionData.scanResult # Null /\ sessionData'.scanResult # Null
           /\ sessionData'.scanResult.scan = sessionData.scanResult.scan) =>
              sessionData'.scanResult.status = sessionData.scanResult.status]_vars

(***************************************************************************)
(* Further claims about the crawler  (CrawlSpec).                          *)
(***************************************************************************)
\* C28: a page whose fetch fails (status not ok, or a network error) is
\* skipped and the crawl is not aborted: the step adds no finding, does not
\* count the page as processed, enqueues nothing, and leaves the crawl in
\* its loop with the rest of the queue
C28_FailedFetchSkipped ==
    [][(fetched' # fetched /\ called' = called) =>
          /\ crawlFindings' = crawlFindings
          /\ processedCount' = processedCount
          /\ processedUrls' = processedUrls
          /\ queue' = Tail(queue)
          /\ cpc' = "loop"]_vars

\* C28 witness: after the seed was processed the fetch of a linked page has
\* failed, and the crawl is in its loop with another entry to go
C28_SkippedReached ==
    /\ cpc = "loop"
    /\ processedCount = 1
    /\ called[seed] = 1
    /\ \E u \in Urls : fetched[u] = 1 /\ called[u] = 0
    /\ Len(queue) > 0
    /\ processedCount < maxPages

\* C29: a link is enqueued only if it is neither processed nor waiting: the
\* queue never holds two entries with the same url, nor an entry for a url
\* already processed
C29_QueueHoldsNewUrlsOnce ==
    cpc # "off" =>
        /\ \A i, j \in 1..Len(queue) : i # j => queue[i].url # queue[j].url
        /\ \A i \in 1..Len(queue) : queue[i].url \notin processedUrls

\* C30: every url the crawler enqueues, fetches or hands to the callback has
\* the hostname of the seed url; links to other hosts are never followed
C30_SeedHostOnly ==
    cpc # "off" =>
        /\ \A i \in 1..Len(queue) : queue[i].url.host = seed.host
        /\ \A u \in Urls : (fetched[u] > 0 \/ called[u] > 0) => u.host = seed.host

\* C30 witness: the seed page has been processed and the one link that was
\* enqueued from it goes to another page of the seed's host
C30_ForeignLinkDropped ==
    /\ cpc = "loop"
    /\ processedCount = 1
    /\ Len(queue) = 1
    /\ queue[1].url.host = seed.host
    /\ queue[1].url # seed

\* C31: the crawl runs with the limits the caller supplied, for every
\* maxPages >= 1 and maxDepth >= 0, and with the defaults 10 and 2 only for a
\* limit that was not supplied; with maxDepth = 0 only the seed page is
\* processed and no link is enqueued
C31_SuppliedLimitsUsed ==
    cpc # "off" =>
        /\ maxPages = IF scanInput.maxPages.present
                      THEN scanInput.maxPages.value ELSE DefaultMaxPages
        /\ maxDepth = IF scanInput.maxDepth.present
                      THEN scanInput.maxDepth.value ELSE DefaultMaxDepth
        /\ scanInput.maxDepth = Supplied(0) =>
              /\ processedCount <= 1
              /\ \A i \in 1..Len(queue) : queue[i].url = seed /\ queue[i].depth = 0

\* the part of C31 about the crawl itself: with maxDepth = 0 supplied only
\* the seed page is processed and no link is enqueued
C31_DepthZeroSeedOnly ==
    (cpc # "off" /\ scanInput.maxDepth = Supplied(0)) =>
        /\ processedCount <= 1
        /\ \A i \in 1..Len(queue) : queue[i].depth = 0

(***************************************************************************)
(* Claims about the checks of a crawled page  (PageSpec).                  *)
(***************************************************************************)
\* C32: in a crawl scan the header, cookie and CORS findings of a page are
\* those of the headers of the response fetched for it: none for a header
\* the page was served with, the CORS finding for a served wildcard
C32_FindingsFromServedHeaders ==
    (hpc = "returned" /\ variant = "crawl") =>
        SelectSeq(headerFindings,
                  LAMBDA f : f.type \in {"header", "cookie", "cors"})
          = checkSecurityHeaders(scanInput.headers)
            \o checkCookies(scanInput.headers, Href(scanInput.url))
            \o checkCORS(scanInput.headers)

(***************************************************************************)
(* Claims about isVersionOutdated  (VersionSpec).                          *)
(***************************************************************************)
\* component i of a version, 0 when the version has fewer components
Component(version, i) == PartOr0(VersionParts(version), i)

NumComponents(version) == Len(VersionParts(version))

\* a is strictly below b in component-wise numeric order
StrictlyBelow(a, b) ==
    \E i \in 1..Max(NumComponents(a), NumComponents(b)) :
        /\ Component(a, i) < Component(b, i)
        /\ \A j \in 1..(i - 1) : Component(a, j) = Component(b, j)

\* C33: isVersionOutdated(current, minimum) is true exactly when current is
\* strictly below minimum component by component, missing components read
\* as 0 (the first differing component decides, equal versions are not
\* outdated), so it is never true for a pair and for the swapped pair
C33_OutdatedIsStrictlyBelow ==
    hpc = "returned" /\ variant = "off" /\ scanInput # Null /\ scanOutput # Null =>
        /\ scanOutput.outdated = StrictlyBelow(scanInput.current, scanInput.minimum)
        /\ ~(scanOutput.outdated /\ scanOutput.swapped)

\* C33 witness: 1.0 against 1 is not outdated either way
C33_EqualUpToZerosReached ==
    /\ hpc = "returned"
    /\ scanInput = [current |-> <<"1", ".", "0">>, minimum |-> <<"1">>]
    /\ scanOutput = [outdated |-> FALSE, swapped |-> FALSE]

(***************************************************************************)
(* Claims about the fallback reply  (ReplySpec).                           *)
(***************************************************************************)
\* the calls whose completion call failed while a scan result existed
FallbackRuns ==
    {i \in 1..Len(runs) :
        runs[i].completion = "throws" /\ runs[i].input.scanResults # Null}

\* the fallback replies depend on user message and scan result only
FallbackDeterministic ==
    \A i, j \in FallbackRuns :
        runs[i].input = runs[j].input => runs[i].output = runs[j].output

\* the reply of run i lists the critical findings of its scan result, or
\* says that there are none
ListsCritical(i) ==
    LET fs == runs[i].input.scanResults.findings
        critical == SelectSeq(fs, LAMBDA f : f.severity = "critical")
    IN IF Len(critical) = 0
       THEN runs[i].output.template = "no critical"
       ELSE /\ runs[i].output.template = "critical"
            /\ runs[i].output.items = [k \in 1..Len(critical) |-> critical[k].title]

\* C34: when the completion call fails and a scan result exists, the reply
\* is a function of user message and scan result only, and whenever the
\* message mentions 'critical' it lists the scan's critical findings or
\* says that there are none
C34_FallbackListsCritical ==
    /\ FallbackDeterministic
    /\ \A i \in FallbackRuns :
          Mentions(runs[i].input.userMessage, "critical") => ListsCritical(i)

\* C34 as the code has it: the reply is a function of user message and scan
\* result only, and a message that mentions 'critical' gets the critical
\* findings unless it also mentions 'summary' or 'overview', which are
\* tested first and get the counts
C34_FallbackListsCriticalUnlessSummary ==
    /\ FallbackDeterministic
    /\ \A i \in FallbackRuns :
          LET message == runs[i].input.userMessage IN
          Mentions(message, "critical") =>
             IF Mentions(message, "summary") \/ Mentions(message, "overview")
             THEN runs[i].output.template = "summary"
             ELSE ListsCritical(i)

\* C34 witness: the same question about critical issues got the same list
\* of critical findings at two times with different chat histories
C34_SameListTwiceReached ==
    /\ Len(runs) = 2
    /\ FallbackRuns = {1, 2}
    /\ runs[1].input = runs[2].input
    /\ runs[1].chatHistory # runs[2].chatHistory
    /\ runs[1].output.template = "critical"
    /\ runs[2].output = runs[1].output

(***************************************************************************)
(* Claims about the checks on malformed input  (AnyUrlSpec).               *)
(***************************************************************************)
\* C35: no check throws on malformed input: on an unparsable url checkSSL
\* and checkMixedContent return no finding, and runAllChecks returns the
\* findings of the other checks
C35_NoCheckThrows ==
    hpc = "returned" =>
        /\ ~scanOutput.threw
        /\ ~Parses(checkerUrl) =>
              scanOutput.findings =
                  checkSecurityHeaders(responseHeaders)
                  \o checkCookies(responseHeaders, checkerUrl)
                  \o checkExposedFiles(checkerUrl, checkerHtml)
                  \o checkXSSVulnerabilities(checkerHtml)
                  \o checkCORS(responseHeaders)
                  \o checkOutdatedLibraries(checkerHtml)

(***************************************************************************)
(* Claims about a fetch without response  (SilentFairSpec).                *)
(***************************************************************************)
\* C36: a page fetch that never responds does not stall the scan: the page
\* is abandoned, the crawl goes on with the remaining queue and ends
C36_SilentFetchAbandoned == <>(cpc = "done")

(***************************************************************************)
(* Claims about chat exchanges and scan results of a session  (Spec).      *)
(***************************************************************************)
\* the history ends with a user message that has no reply yet
EndsWithUserMessage(history) ==
    Len(history) > 0 /\ history[Len(history)].role = "user"

\* C37: a chat exchange is persisted as a pair: neither the persisted
\* chatHistory nor the chatHistory returned by getStatus or getChatHistory
\* ever ends with a user message whose reply has not been appended
C37_ExchangePersistedAsPair ==
    /\ stored # Null => ~EndsWithUserMessage(stored.chatHistory)
    /\ (resp.route \in {"status", "history"} /\ resp.do = 200) =>
          ~EndsWithUserMessage(resp.body.chatHistory)

\* the session's scan result, when it has one, is of a scan of its url
ResultOfCurrentUrl(session) ==
    (session # Null /\ session.scanResult # Null) =>
        session.scanResult.url = session.url

\* C38: a session's scanResult was produced by a scan requested for the
\* session's current url: the result of a scan started for an earlier url
\* is never stored after a later request changed the url
C38_ResultOfCurrentUrl ==
    ResultOfCurrentUrl(sessionData) /\ ResultOfCurrentUrl(stored)

(***************************************************************************)
(* Claims about the result of a crawl whose seed fails  (CrawlScanSpec).   *)
(***************************************************************************)
\* C39: in the crawl-based scanWebsite a result with status completed
\* implies that the seed page was fetched successfully and checked; when
\* the seed page cannot be fetched the result has status failed
C39_CompletedImpliesSeedChecked ==
    (cpc = "returned" /\ scanOutput.status = "completed") =>
        /\ called[seed] >= 1
        /\ processedCount >= 1

(***************************************************************************)
(* Claims about the string form of crawled urls  (SeedSpec).               *)
(***************************************************************************)
\* the url string as the URL parser writes it
Canonical(str) == toString(ParseUrl(str))

\* how often the callback ran on the page that str names, in any spelling
ChecksOfPage(str) ==
    LET spellings == {u \in UrlStrings : Canonical(u) = Canonical(str)}
        Sum[S \in SUBSET spellings] ==
            IF S = {} THEN 0
            ELSE LET u == CHOOSE x \in S : TRUE IN called[u] + Sum[S \ {u}]
    IN Sum[spellings]

\* C40: the seed and every extracted link enter the processed-set in the
\* same canonical string form, so a link back to the seed page is recognised
\* as processed and the seed page is not checked a second time
C40_SeedAndLinksSameForm ==
    /\ \A u \in processedUrls : u = Canonical(u)
    /\ ChecksOfPage(seed) <= 1

====
